---------------------------- MODULE Spec2Model ----------------------------
(***************************************************************************)
(* ozwatch: the traffic core of the map view.                              *)
(*                                                                         *)
(*   - lib/airspaceParser (estimator): calculateRates, getShortestTurn,    *)
(*     predictPosition, getPilotStatus                                     *)
(*   - components/traffic-controller: the sync loop (a React effect that   *)
(*     reconciles a snapshot batch into pilotRegistry) and the animate     *)
(*     loop (a requestAnimationFrame callback that reads pilotRegistry)    *)
(*                                                                         *)
(* Times are milliseconds (Date.now()).  Headings, altitudes and speeds of *)
(* a snapshot are integers; rates are exact rationals [n, d], because the  *)
(* code divides by the elapsed seconds.  Positions are integers on a flat  *)
(* plane whose unit is the distance flown at 1 kt in 1 min (1/60 nm, about *)
(* 30.87 m), so that speed * minutes is a distance; latitude grows to the  *)
(* north and longitude to the east.                                        *)
(***************************************************************************)
EXTENDS Integers, Sequences, FiniteSets, TLC

VARIABLES
    now,               \* Date.now(), ms
    trafficData,       \* useSWR('/api/traffic').data: NULL or [pilots, serverTime]
    dataRef,           \* dataRef.current: NULL or [pilots, fetchTime]
    pilotRegistry,     \* pilotRegistry.current: cid -> entry
    markersRef,        \* keys of markersRef.current (tracksRef has the same keys)
    selectedSectorIds, \* useState<Set<string>>, in insertion order
    selectedCid,       \* useState<number | null>
    effectPending,     \* a dependency of the sync effect changed since it last ran
    pc,                \* "idle" | "sync" | "crashed"
    syncIdx,           \* index into pilots of the pilot the sync loop handles next
    activeCids,        \* the sync effect's activeCids set
    arrived,           \* history: number of batches that have arrived
    reconciled,        \* history: the trafficData the last sync pass started on
    passIsNew,         \* history: the current/last sync pass reconciles a batch for the first time
    passEnded,         \* history: a sync pass has run to its end (normally or by throwing)
    appended,          \* history: cid -> every push on its history since creation: the position,
                       \*          and whether the pass reconciled a batch for the first time
    tickView,          \* history: what the last animate frame read and drew
    uiEvents,          \* history: number of clicks and sector toggles so far
    call,              \* the arguments of a call of a pure function
    ret                \* its result

vars == <<now, trafficData, dataRef, pilotRegistry, markersRef, selectedSectorIds,
          selectedCid, effectPending, pc, syncIdx, activeCids, arrived, reconciled,
          passIsNew, passEnded, appended, tickView, uiEvents, call, ret>>

\* null / undefined; a nullable number or string x is kept as <<x>>
NULL == <<>>
Some(x) == <<x>>

---------------------------------------------------------------------------
(* Numbers.  A JavaScript number that is a quotient is kept exact.         *)

Abs(x) == IF x < 0 THEN -x ELSE x

RECURSIVE Gcd(_, _)
Gcd(a, b) == IF b = 0 THEN a ELSE Gcd(b, a % b)

\* the rational n/d (d # 0) in lowest terms with a positive denominator
Rat(n, d) ==
    LET g == Gcd(Abs(n), Abs(d))
        s == IF d < 0 THEN -1 ELSE 1
    IN  [n |-> s * (n \div g), d |-> s * (d \div g)]

RInt(k) == [n |-> k, d |-> 1]
RZero == RInt(0)
RAdd(a, b) == Rat(a.n * b.d + b.n * a.d, a.d * b.d)
RSub(a, b) == Rat(a.n * b.d - b.n * a.d, a.d * b.d)
RMul(a, b) == Rat(a.n * b.n, a.d * b.d)
RDiv(a, b) == Rat(a.n * b.d, a.d * b.n)
RLt(a, b) == a.n * b.d < b.n * a.d
RLe(a, b) == a.n * b.d <= b.n * a.d
RFloor(a) == a.n \div a.d
RMax(a, b) == IF RLt(a, b) THEN b ELSE a

\* JavaScript's %: the remainder has the sign of the dividend
JsMod(a, b) == IF a >= 0 THEN a % b ELSE -((-a) % b)

\* the same for a rational dividend and an integer divisor
RJsMod(a, b) == Rat(JsMod(a.n, b * a.d), a.d)

FullCircle == 360
HalfCircle == 180

---------------------------------------------------------------------------
(* lib/estimator: rates                                                    *)

\* start and end are rationals (the controller passes a predicted heading)
getShortestTurn(start, end) ==
    LET diff == RSub(RJsMod(RAdd(RSub(end, start), RInt(HalfCircle)), FullCircle), RInt(HalfCircle))
    IN  IF RLt(diff, RInt(-HalfCircle)) THEN RAdd(diff, RInt(FullCircle)) ELSE diff

ZeroRates == [turnRate |-> RZero, climbRate |-> RZero, accelRate |-> RZero]

\* timeDelta is a rational number of seconds
calculateRatesUnguarded(oldData, newData, timeDelta) ==
    IF timeDelta.n = 0 THEN ZeroRates
    ELSE [turnRate  |-> RDiv(getShortestTurn(RInt(oldData.heading), RInt(newData.heading)), timeDelta),
          climbRate |-> RDiv(RInt(newData.altitude - oldData.altitude), timeDelta),
          accelRate |-> RDiv(RInt(newData.groundspeed - oldData.groundspeed), timeDelta)]

calculateRates(oldData, newData, timeDelta) ==
    IF RLe(timeDelta, RZero) THEN ZeroRates
    ELSE [turnRate  |-> RDiv(getShortestTurn(RInt(oldData.heading), RInt(newData.heading)), timeDelta),
          climbRate |-> RDiv(RInt(newData.altitude - oldData.altitude), timeDelta),
          accelRate |-> RDiv(RInt(newData.groundspeed - oldData.groundspeed), timeDelta)]

---------------------------------------------------------------------------
(* lib/estimator: geometry.  turf's spherical geometry is replaced by a    *)
(* flat plane; a sector polygon is a rectangle [latMin, latMax] x          *)
(* [lonMin, lonMax]; sines are Bhaskara's rational approximation in        *)
(* thousandths, exact at the multiples of 30 degrees that matter here.     *)

SinMilliHalf(x) == (4000 * x * (HalfCircle - x)) \div (40500 - x * (HalfCircle - x))

\* sin of an integer angle in degrees, in thousandths
SinMilli(a) ==
    LET x == a % FullCircle
    IN  IF x <= HalfCircle THEN SinMilliHalf(x) ELSE -SinMilliHalf(x - HalfCircle)

CosMilli(a) == SinMilli(a + 90)

\* dist * m / 1000, rounded toward zero
MulMilli(dist, m) == IF m >= 0 THEN (dist * m) \div 1000 ELSE -((dist * (-m)) \div 1000)

\* turf.destination(point, distance, bearing): bearing clockwise from north
destination(lat, lon, dist, bearing) ==
    LET b == RFloor(bearing)
    IN  [lat |-> lat + MulMilli(dist, CosMilli(b)), lon |-> lon + MulMilli(dist, SinMilli(b))]

RECURSIVE ISqrtFrom(_, _)
ISqrtFrom(x, r) == IF (r + 1) * (r + 1) > x THEN r ELSE ISqrtFrom(x, r + 1)

RECURSIVE ISqrt(_)
ISqrt(x) == IF x < 4 THEN ISqrtFrom(x, 0) ELSE ISqrtFrom(x, 2 * ISqrt(x \div 4))

\* turf.distance(p, q), in position units
distance(p, q) ==
    LET dy == Abs(p.lat - q.lat)
        dx == Abs(p.lon - q.lon)
    IN  ISqrt(dx * dx + dy * dy)

\* turf.booleanPointInPolygon(point, feature): the boundary counts as inside
booleanPointInPolygon(point, feature) ==
    /\ feature.latMin <= point.lat /\ point.lat <= feature.latMax
    /\ feature.lonMin <= point.lon /\ point.lon <= feature.lonMax

\* a single Feature is passed by the controller (the FeatureCollection branch loops over the members)
checkInsideAny(point, polygonCollection) == booleanPointInPolygon(point, polygonCollection)

\* speedKts * 0.514444 * timeSec metres is speedKts * timeSec / 60 position units
predictPosition(lat, lon, heading, speedKts, timeSec) ==
    LET distanceM == RFloor(RDiv(RMul(speedKts, timeSec), RInt(60)))
    IN  destination(lat, lon, distanceM, heading)

\* turf.bearing(p, q) in degrees clockwise from north: exact for the axis-parallel and the
\* diagonal lines, the nearest of the two otherwise
bearing(p, q) ==
    LET dy == q.lat - p.lat
        dx == q.lon - p.lon
    IN  IF Abs(dx) * 2 <= Abs(dy) THEN (IF dy >= 0 THEN 0 ELSE 180)
        ELSE IF Abs(dy) * 2 <= Abs(dx) THEN (IF dx >= 0 THEN 90 ELSE -90)
        ELSE IF dy > 0 THEN (IF dx > 0 THEN 45 ELSE -45)
        ELSE (IF dx > 0 THEN 135 ELSE -135)

\* turf.length(line): a line is a sequence of points
RECURSIVE length(_)
length(line) ==
    IF Len(line) < 2 THEN 0
    ELSE distance(line[1], line[2]) + length(Tail(line))

\* turf.along(line, dist): the point at dist along the line, its last point beyond the end
RECURSIVE along(_, _)
along(line, dist) ==
    IF Len(line) = 1 THEN line[1]
    ELSE LET seg == distance(line[1], line[2])
         IN  IF dist > seg \/ seg = 0 THEN along(Tail(line), dist - seg)
             ELSE IF dist <= 0 THEN line[1]
             ELSE [lat |-> line[1].lat + ((line[2].lat - line[1].lat) * dist) \div seg,
                   lon |-> line[1].lon + ((line[2].lon - line[1].lon) * dist) \div seg]

\* 0.1 km and 0.5 km in position units (1 unit = 30.87 m)
OffsetThreshold == 3
SampleAhead == 16

\* a route prediction that would apply the lateral offset before looking at the route's end
predictPositionOnRouteOffsetFirst(routeLine, startDistanceKm, offsetKm, speedKts, timeElapsedSec) ==
    LET travelDistKm == RFloor(RDiv(RMul(speedKts, timeElapsedSec), RInt(60)))
        newDistanceKm == startDistanceKm + travelDistKm
        lineLength == length(routeLine)
        centerPoint == along(routeLine, newDistanceKm)
        sample == along(routeLine, IF newDistanceKm + SampleAhead < lineLength
                                   THEN newDistanceKm + SampleAhead ELSE lineLength)
        brg == bearing(centerPoint, sample)
    IN  IF Abs(offsetKm) >= OffsetThreshold
          THEN destination(centerPoint.lat, centerPoint.lon, Abs(offsetKm),
                           RInt(brg + (IF offsetKm > 0 THEN 90 ELSE -90)))
        ELSE IF newDistanceKm >= lineLength THEN along(routeLine, lineLength)
        ELSE centerPoint

\* predictPositionOnRoute: the point reached along the route, moved sideways by the offset
predictPositionOnRoute(routeLine, startDistanceKm, offsetKm, speedKts, timeElapsedSec) ==
    LET travelDistKm == RFloor(RDiv(RMul(speedKts, timeElapsedSec), RInt(60)))
        newDistanceKm == startDistanceKm + travelDistKm
        lineLength == length(routeLine)
        centerPoint == along(routeLine, newDistanceKm)
        sample == along(routeLine, IF newDistanceKm + SampleAhead < lineLength
                                   THEN newDistanceKm + SampleAhead ELSE lineLength)
        brg == bearing(centerPoint, sample)
    IN  IF newDistanceKm >= lineLength THEN along(routeLine, lineLength)
        ELSE IF Abs(offsetKm) < OffsetThreshold THEN centerPoint
        ELSE destination(centerPoint.lat, centerPoint.lon, Abs(offsetKm),
                         RInt(brg + (IF offsetKm > 0 THEN 90 ELSE -90)))

---------------------------------------------------------------------------
(* lib/estimator: sector status                                            *)

\* the parameters t in [0, 1] at which the segment from a to b meets the boundary of the rectangle
CrossingsLon(a, b, f) ==
    IF b.lon = a.lon THEN {}
    ELSE { t \in { Rat(L - a.lon, b.lon - a.lon) : L \in {f.lonMin, f.lonMax} } :
             /\ RLe(RZero, t) /\ RLe(t, RInt(1))
             /\ RLe(RInt(f.latMin), RAdd(RInt(a.lat), RMul(t, RInt(b.lat - a.lat))))
             /\ RLe(RAdd(RInt(a.lat), RMul(t, RInt(b.lat - a.lat))), RInt(f.latMax)) }

CrossingsLat(a, b, f) ==
    IF b.lat = a.lat THEN {}
    ELSE { t \in { Rat(L - a.lat, b.lat - a.lat) : L \in {f.latMin, f.latMax} } :
             /\ RLe(RZero, t) /\ RLe(t, RInt(1))
             /\ RLe(RInt(f.lonMin), RAdd(RInt(a.lon), RMul(t, RInt(b.lon - a.lon))))
             /\ RLe(RAdd(RInt(a.lon), RMul(t, RInt(b.lon - a.lon))), RInt(f.lonMax)) }

\* turf.lineIntersect(pathLine, polygon), each point by its parameter on the path
lineIntersect(pathLine, polygon) ==
    CrossingsLon(pathLine[1], pathLine[2], polygon) \cup CrossingsLat(pathLine[1], pathLine[2], polygon)

\* Math.round of the quotient a / b of two positive integers (a half rounds up)
RoundDiv(a, b) == (2 * a + b) \div (2 * b)

\* the quotient cut off instead of rounded
getMinutesToBoundaryTruncated(currentPt, pathLine, polygon, speedKts) ==
    LET intersects == lineIntersect(pathLine, polygon)
        tmin == CHOOSE t \in intersects : \A u \in intersects : RLe(t, u)
        closest == [lat |-> pathLine[1].lat + RFloor(RMul(tmin, RInt(pathLine[2].lat - pathLine[1].lat))),
                    lon |-> pathLine[1].lon + RFloor(RMul(tmin, RInt(pathLine[2].lon - pathLine[1].lon)))]
        distKm == distance(currentPt, closest)
        speedKmMin == speedKts
    IN  IF intersects = {} THEN NULL
        ELSE IF speedKmMin <= 0 THEN NULL
        ELSE Some(distKm \div speedKmMin)

getMinutesToBoundary(currentPt, pathLine, polygon, speedKts) ==
    LET intersects == lineIntersect(pathLine, polygon)
        tmin == CHOOSE t \in intersects : \A u \in intersects : RLe(t, u)
        closest == [lat |-> pathLine[1].lat + RFloor(RMul(tmin, RInt(pathLine[2].lat - pathLine[1].lat))),
                    lon |-> pathLine[1].lon + RFloor(RMul(tmin, RInt(pathLine[2].lon - pathLine[1].lon)))]
        distKm == distance(currentPt, closest)
        speedKmMin == speedKts
    IN  IF intersects = {} THEN NULL
        ELSE IF speedKmMin <= 0 THEN NULL
        ELSE Some(RoundDiv(distKm, speedKmMin))

DefaultStatus ==
    [state |-> "outside", minutesUntilEvent |-> NULL, color |-> "#3b82f6",
     activeSector |-> NULL, secondarySector |-> NULL]

PredictionWindow == 1800
SpeedGate == 50

\* !pilot.groundspeed: the field is missing, or 0
NoSpeed(pilot) == "groundspeed" \notin DOMAIN pilot \/ pilot.groundspeed = 0

SpeedGatedStrict(pilot) == NoSpeed(pilot) \/ pilot.groundspeed <= SpeedGate

SpeedGated(pilot) == NoSpeed(pilot) \/ pilot.groundspeed < SpeedGate

\* the status decision with the two crossing directions exchanged
StatusOfSwapped(isInsideNow, isInsideFuture, minutes) ==
    IF isInsideNow /\ ~isInsideFuture
      THEN [DefaultStatus EXCEPT !.state = "entering", !.color = "#eab308", !.minutesUntilEvent = minutes]
    ELSE IF ~isInsideNow /\ isInsideFuture
      THEN [DefaultStatus EXCEPT !.state = "leaving", !.color = "#eab308", !.minutesUntilEvent = minutes]
    ELSE IF isInsideNow
      THEN [DefaultStatus EXCEPT !.state = "inside", !.color = "#22c55e"]
    ELSE [DefaultStatus EXCEPT !.state = "outside", !.color = "#3b82f6"]

StatusOf(isInsideNow, isInsideFuture, minutes) ==
    IF isInsideNow /\ ~isInsideFuture
      THEN [DefaultStatus EXCEPT !.state = "leaving", !.color = "#eab308", !.minutesUntilEvent = minutes]
    ELSE IF ~isInsideNow /\ isInsideFuture
      THEN [DefaultStatus EXCEPT !.state = "entering", !.color = "#eab308", !.minutesUntilEvent = minutes]
    ELSE IF isInsideNow
      THEN [DefaultStatus EXCEPT !.state = "inside", !.color = "#22c55e"]
    ELSE [DefaultStatus EXCEPT !.state = "outside", !.color = "#3b82f6"]

\* the position 30 minutes ahead: along the route when the LNAV context is given, else linear
futurePosition(pilot, routeLine, distAlongRoute, offset) ==
    IF routeLine # NULL /\ distAlongRoute # NULL /\ offset # NULL
      THEN predictPositionOnRoute(routeLine, distAlongRoute[1], offset[1],
                                  RInt(pilot.groundspeed), RInt(PredictionWindow))
      ELSE predictPosition(pilot.latitude, pilot.longitude, RInt(pilot.heading),
                           RInt(pilot.groundspeed), RInt(PredictionWindow))

getPilotStatus(pilot, firPolygon, routeLine, distAlongRoute, offset) ==
    IF firPolygon = NULL \/ SpeedGated(pilot) THEN DefaultStatus
    ELSE
      LET currentPt == [lat |-> pilot.latitude, lon |-> pilot.longitude]
          isInsideNow == checkInsideAny(currentPt, firPolygon)
          futurePos == futurePosition(pilot, routeLine, distAlongRoute, offset)
          isInsideFuture == checkInsideAny(futurePos, firPolygon)
          pathLine == <<currentPt, futurePos>>
      IN  StatusOf(isInsideNow, isInsideFuture,
                   getMinutesToBoundary(currentPt, pathLine, firPolygon, pilot.groundspeed))

---------------------------------------------------------------------------
(* The controller's state after the component has mounted.                 *)

\* useSWR's refreshInterval, ms
RefreshInterval == 15000

\* the clock advances by one refresh and the time the response takes
TimeStep == RefreshInterval + 5000
StartTime == 20 * TimeStep

ControllerInit ==
    /\ now = StartTime
    /\ trafficData = NULL
    /\ dataRef = NULL
    /\ pilotRegistry = <<>>
    /\ markersRef = {}
    /\ selectedSectorIds = <<>>
    /\ selectedCid = NULL
    /\ effectPending = FALSE
    /\ pc = "idle"
    /\ syncIdx = 0
    /\ activeCids = {}
    /\ arrived = 0
    /\ reconciled = NULL
    /\ passIsNew = FALSE
    /\ passEnded = FALSE
    /\ appended = <<>>
    /\ tickView = NULL
    /\ uiEvents = 0

controllerVars == <<now, trafficData, dataRef, pilotRegistry, markersRef, selectedSectorIds,
                    selectedCid, effectPending, pc, syncIdx, activeCids, arrived, reconciled,
                    passIsNew, passEnded, appended, tickView, uiEvents>>

---------------------------------------------------------------------------
(* components/traffic-controller: what the controller reads                *)

\* airportLookup.current and sectorFeatureMap.current, loaded once (waypointLookup is not empty)
AirportLookup == [YSSY |-> [lat |-> -2000, lon |-> 4000], YMML |-> [lat |-> -4000, lon |-> -4000],
                  YBBN |-> [lat |-> 3000, lon |-> 5000]]

SectorFeatureMap ==
    [YBBB |-> [id |-> "YBBB", latMin |-> -1500, latMax |-> 1500, lonMin |-> -1500, lonMax |-> 1500],
     YMMM |-> [id |-> "YMMM", latMin |-> -1500, latMax |-> 1500, lonMin |-> -6000, lonMax |-> -1501]]

SectorIds == DOMAIN SectorFeatureMap

HistoryCap == 20
SmoothingDuration == 3500
ExpectedInterval == 15

\* array.slice(-n)
LastN(seq, n) == IF Len(seq) <= n THEN seq ELSE SubSeq(seq, Len(seq) - n + 1, Len(seq))

\* array.slice(0, n): the first n elements
FirstN(seq, n) == IF Len(seq) <= n THEN seq ELSE SubSeq(seq, 1, n)

\* a buffer that keeps the oldest positions
PushHistoryKeepOldest(history, position) == FirstN(Append(history, position), HistoryCap)

\* [...history, position].slice(-20)
PushHistory(history, position) == LastN(Append(history, position), HistoryCap)

HasFlightPlan(data) == "flight_plan" \in DOMAIN data

\* parseSimpleRoute: the straight line from the departure to the arrival
parseSimpleRoute(routeString, start, end) == <<start, end>>

\* trafficData?.serverTime || fetchTime
ServerTimeOf(td, ref) == IF td # NULL /\ td.serverTime # 0 THEN td.serverTime ELSE ref.fetchTime

\* Array.from(selectedSectorIds).map(id => sectorFeatureMap.current[id]).filter(f => !!f)
RECURSIVE ActiveFeatures(_)
ActiveFeatures(ids) ==
    IF ids = <<>> THEN <<>>
    ELSE IF Head(ids) \in DOMAIN SectorFeatureMap
      THEN <<SectorFeatureMap[Head(ids)]>> \o ActiveFeatures(Tail(ids))
      ELSE ActiveFeatures(Tail(ids))

\* const s = getPilotStatus(pilot, feature, lnavRoute, lnavDist, lnavOffset), for every active
\* feature in order; lnav is never set, so lnavRoute stays null
SectorStatuses(pilot, features) ==
    [i \in 1 .. Len(features) |-> getPilotStatus(pilot, features[i], NULL, NULL, NULL)]

\* insideSec, leavingSec or enteringSec after the loop: the last feature, in order, whose status
\* is st, with its id, or NULL
RECURSIVE LastWithState(_, _, _)
LastWithState(statuses, features, st) ==
    IF statuses = <<>> THEN NULL
    ELSE IF statuses[Len(statuses)].state = st
      THEN [s |-> statuses[Len(statuses)], id |-> features[Len(statuses)].id]
      ELSE LastWithState(SubSeq(statuses, 1, Len(statuses) - 1), features, st)

\* a priority that puts 'inside' before the transition
FinalStatusInsideFirst(features, insideSec, leavingSec, enteringSec) ==
    IF features = <<>> THEN DefaultStatus
    ELSE IF insideSec # NULL
      THEN [insideSec.s EXCEPT !.activeSector = Some(insideSec.id), !.color = "#22c55e"]
    ELSE IF leavingSec # NULL /\ enteringSec # NULL
      THEN [state |-> "transition", minutesUntilEvent |-> leavingSec.s.minutesUntilEvent,
            color |-> "#eab308", activeSector |-> Some(leavingSec.id),
            secondarySector |-> Some(enteringSec.id)]
    ELSE IF leavingSec # NULL
      THEN [leavingSec.s EXCEPT !.activeSector = Some(leavingSec.id), !.color = "#eab308"]
    ELSE IF enteringSec # NULL
      THEN [enteringSec.s EXCEPT !.activeSector = Some(enteringSec.id), !.color = "#eab308"]
    ELSE DefaultStatus

\* the final status priority
FinalStatus(features, insideSec, leavingSec, enteringSec) ==
    IF features = <<>> THEN DefaultStatus
    ELSE IF leavingSec # NULL /\ enteringSec # NULL
      THEN [state |-> "transition", minutesUntilEvent |-> leavingSec.s.minutesUntilEvent,
            color |-> "#eab308", activeSector |-> Some(leavingSec.id),
            secondarySector |-> Some(enteringSec.id)]
    ELSE IF insideSec # NULL
      THEN [insideSec.s EXCEPT !.activeSector = Some(insideSec.id), !.color = "#22c55e"]
    ELSE IF leavingSec # NULL
      THEN [leavingSec.s EXCEPT !.activeSector = Some(leavingSec.id), !.color = "#eab308"]
    ELSE IF enteringSec # NULL
      THEN [enteringSec.s EXCEPT !.activeSector = Some(enteringSec.id), !.color = "#eab308"]
    ELSE DefaultStatus

StatusFromSectors(features, statuses) ==
    FinalStatus(features, LastWithState(statuses, features, "inside"),
                LastWithState(statuses, features, "leaving"),
                LastWithState(statuses, features, "entering"))

\* the sync loop's sector logic
CompositeStatus(pilot, features) == StatusFromSectors(features, SectorStatuses(pilot, features))

\* the route condition of the off-course block applies to this pilot
RouteBlockApplies(pilot) ==
    /\ HasFlightPlan(pilot)
    /\ "flight_rules" \in DOMAIN pilot /\ pilot.flight_rules = "I"
    /\ pilot.flight_plan.departure \in DOMAIN AirportLookup
    /\ pilot.flight_plan.arrival \in DOMAIN AirportLookup

\* existing?.lastData.flight_plan.route raises a TypeError: the previous snapshot had no
\* flight plan, and the left operand !cachedRoute is false
RouteCheckThrows(existing, pilot) ==
    /\ RouteBlockApplies(pilot)
    /\ existing # NULL /\ existing.simpleRoute # NULL
    /\ ~HasFlightPlan(existing.lastData)

\* the off-course block calls parseSimpleRoute (no TypeError):
\* !cachedRoute || existing?.lastData.flight_plan.route !== routeStr
RouteResolved(existing, pilot) ==
    /\ RouteBlockApplies(pilot)
    /\ \/ existing = NULL
       \/ existing.simpleRoute = NULL
       \/ existing.lastData.flight_plan.route # pilot.flight_plan.route

\* cachedRoute after the off-course block (no TypeError)
CachedRouteOf(existing, pilot) ==
    IF RouteResolved(existing, pilot)
      THEN parseSimpleRoute(pilot.flight_plan.route, AirportLookup[pilot.flight_plan.departure],
                            AirportLookup[pilot.flight_plan.arrival])
      ELSE IF existing # NULL THEN existing.simpleRoute ELSE NULL

\* ((h % 360) + 360) % 360
NormalizeHeading(h) == RJsMod(RAdd(RJsMod(h, FullCircle), RInt(FullCircle)), FullCircle)

\* milliseconds to seconds
Seconds(ms) == Rat(ms, 1000)

\* rates that are not zero
InitialRatesStale == [turnRate |-> RInt(1), climbRate |-> RZero, accelRate |-> RZero]

\* let rates = { turnRate: 0, climbRate: 0, accelRate: 0 }: the rates of a pilot not seen before
InitialRates == [turnRate |-> RZero, climbRate |-> RZero, accelRate |-> RZero]

\* the smoothing offsets for the heading and the position the marker shows now, and the lag
SmoothingOffsets(pilot, visualHeading, visualPos, projectedNewPos) ==
    [lat |-> visualPos.lat - projectedNewPos.lat, lon |-> visualPos.lon - projectedNewPos.lon,
     hdg |-> getShortestTurn(RInt(pilot.heading), visualHeading)]

PhysicsAt(existing, pilot, timeDelta, actualElapsed, fetchTime, visualHeading, lagSeconds) ==
    [rates |-> calculateRates(existing.lastData, pilot, timeDelta),
     dataTimestamp |-> fetchTime - RFloor(RMul(lagSeconds, RInt(1000))),
     smoothingActive |-> TRUE,
     offsets |-> SmoothingOffsets(pilot, visualHeading,
                    predictPosition(existing.lastData.latitude, existing.lastData.longitude,
                                    visualHeading, RInt(existing.lastData.groundspeed), actualElapsed),
                    predictPosition(pilot.latitude, pilot.longitude, RInt(pilot.heading),
                                    RInt(pilot.groundspeed), lagSeconds))]

PhysicsAfter(existing, pilot, timeDelta, actualElapsed, fetchTime) ==
    PhysicsAt(existing, pilot, timeDelta, actualElapsed, fetchTime,
              NormalizeHeading(RAdd(RInt(existing.lastData.heading),
                                    RMul(existing.rates.turnRate, actualElapsed))),
              RMax(RZero, RSub(actualElapsed, RInt(ExpectedInterval))))

\* the physics block of the sync loop: rates, offsets, smoothingActive and dataTimestamp
Physics(existing, pilot, serverTime, fetchTime) ==
    IF existing = NULL
      THEN [rates |-> InitialRates, dataTimestamp |-> fetchTime, smoothingActive |-> FALSE,
            offsets |-> [lat |-> 0, lon |-> 0, hdg |-> RZero]]
      ELSE PhysicsAfter(existing, pilot, Seconds(serverTime - existing.lastUpdated),
                        Seconds(fetchTime - existing.dataTimestamp), fetchTime)

\* pilotRegistry.current[cid] = { ... }
RegistryEntry(existing, pilot, serverTime, clock, status, cachedRoute, physics) ==
    [lastData |-> pilot, lastUpdated |-> serverTime, dataTimestamp |-> physics.dataTimestamp,
     rates |-> physics.rates,
     history |-> IF existing = NULL THEN << <<pilot.latitude, pilot.longitude>> >>
                 ELSE PushHistory(existing.history, <<pilot.latitude, pilot.longitude>>),
     status |-> status, simpleRoute |-> cachedRoute,
     lnav |-> IF existing = NULL THEN NULL ELSE existing.lnav,
     smoothing |-> [active |-> physics.smoothingActive, startTime |-> clock,
                    duration |-> SmoothingDuration, offsets |-> physics.offsets]]

\* the entry the sync loop writes for a pilot: existing is its previous entry or NULL
NewEntry(existing, pilot, serverTime, fetchTime, features, clock) ==
    RegistryEntry(existing, pilot, serverTime, clock, CompositeStatus(pilot, features),
                  CachedRouteOf(existing, pilot), Physics(existing, pilot, serverTime, fetchTime))

\* f with key k set to v (k may be new)
Put(f, k, v) == [x \in DOMAIN f \cup {k} |-> IF x = k THEN v ELSE f[x]]

\* f without the keys outside keep
Restrict(f, keep) == [x \in DOMAIN f \cap keep |-> f[x]]

Lookup(f, k) == IF k \in DOMAIN f THEN f[k] ELSE NULL

---------------------------------------------------------------------------
(* components/traffic-controller: the sync loop and the animate loop.      *)
(* JavaScript runs an effect or a frame callback to completion, so a sync  *)
(* pass is a run of steps (one per pilot, then the cleanup) during which   *)
(* nothing else is scheduled.  An error thrown by the effect unmounts the  *)
(* component: React runs the effects' cleanups, which cancel the frame.    *)

\* a scheduler that would call the frame callback inside a running effect
FrameCanRunMidPass == pc \in {"idle", "sync"}

\* the requestAnimationFrame callback is called between tasks, while the component is mounted
FrameCanRun == pc = "idle"

CurrentPilot == dataRef.pilots[syncIdx]

\* onSuccess stores the response in dataRef; SWR keeps the old data object, and React does not
\* render again, when the response is deep-equal to it
BatchArrives(b) ==
    /\ pc = "idle" /\ ~effectPending
    /\ dataRef' = [pilots |-> b.pilots, fetchTime |-> now]
    /\ IF trafficData = b
         THEN UNCHANGED <<trafficData, effectPending>>
         ELSE trafficData' = b /\ effectPending' = TRUE
    /\ arrived' = arrived + 1
    /\ passEnded' = FALSE
    /\ UNCHANGED <<now, pilotRegistry, markersRef, selectedSectorIds, selectedCid, pc, syncIdx,
                   activeCids, reconciled, passIsNew, appended, tickView, uiEvents, call, ret>>

\* handleSectorToggle
ToggleSector(id) ==
    /\ pc = "idle" /\ ~effectPending
    /\ selectedSectorIds' =
         IF \E i \in 1 .. Len(selectedSectorIds) : selectedSectorIds[i] = id
           THEN SelectSeq(selectedSectorIds, LAMBDA x : x # id)
           ELSE Append(selectedSectorIds, id)
    /\ effectPending' = TRUE
    /\ uiEvents' = uiEvents + 1
    /\ UNCHANGED <<now, trafficData, dataRef, pilotRegistry, markersRef, selectedCid, pc, syncIdx,
                   activeCids, arrived, reconciled, passIsNew, passEnded, appended, tickView,
                   call, ret>>

\* marker.on('click'): lock the selection on the pilot, or release it
ClickMarker(cid) ==
    /\ pc = "idle" /\ ~effectPending
    /\ cid \in markersRef
    /\ selectedCid' = IF selectedCid = Some(cid) THEN NULL ELSE Some(cid)
    /\ effectPending' = TRUE
    /\ uiEvents' = uiEvents + 1
    /\ UNCHANGED <<now, trafficData, dataRef, pilotRegistry, markersRef, selectedSectorIds, pc,
                   syncIdx, activeCids, arrived, reconciled, passIsNew, passEnded, appended,
                   tickView, call, ret>>

\* the sync effect starts: it returns at once while no response has been stored
SyncBegin ==
    /\ pc = "idle" /\ effectPending
    /\ effectPending' = FALSE
    /\ IF dataRef = NULL
         THEN UNCHANGED <<pc, syncIdx, activeCids, reconciled, passIsNew, passEnded>>
         ELSE /\ pc' = "sync"
              /\ syncIdx' = 1
              /\ activeCids' = {}
              /\ passIsNew' = (trafficData # reconciled)
              /\ reconciled' = trafficData
              /\ passEnded' = FALSE
    /\ UNCHANGED <<now, trafficData, dataRef, pilotRegistry, markersRef, selectedSectorIds,
                   selectedCid, arrived, appended, tickView, uiEvents, call, ret>>

\* one iteration of pilots.forEach: sector logic, route cache, physics, registry update, marker
SyncPilot ==
    /\ pc = "sync" /\ syncIdx <= Len(dataRef.pilots)
    /\ LET pilot == CurrentPilot
           existing == Lookup(pilotRegistry, pilot.cid)
       IN  /\ ~RouteCheckThrows(existing, pilot)
           /\ pilotRegistry' = Put(pilotRegistry, pilot.cid,
                                    NewEntry(existing, pilot, ServerTimeOf(trafficData, dataRef),
                                             dataRef.fetchTime, ActiveFeatures(selectedSectorIds), now))
           /\ appended' = Put(appended, pilot.cid,
                               Append(IF existing = NULL THEN <<>> ELSE appended[pilot.cid],
                                      [pos |-> <<pilot.latitude, pilot.longitude>>,
                                       fresh |-> passIsNew]))
           /\ markersRef' = markersRef \cup {pilot.cid}
           /\ activeCids' = activeCids \cup {pilot.cid}
    /\ syncIdx' = syncIdx + 1
    /\ UNCHANGED <<now, trafficData, dataRef, selectedSectorIds, selectedCid, effectPending, pc,
                   arrived, reconciled, passIsNew, passEnded, tickView, uiEvents, call, ret>>

\* the iteration raises a TypeError: the effect ends there and the component is unmounted
SyncThrow ==
    /\ pc = "sync" /\ syncIdx <= Len(dataRef.pilots)
    /\ RouteCheckThrows(Lookup(pilotRegistry, CurrentPilot.cid), CurrentPilot)
    /\ activeCids' = activeCids \cup {CurrentPilot.cid}
    /\ pc' = "crashed"
    /\ passEnded' = TRUE
    /\ UNCHANGED <<now, trafficData, dataRef, pilotRegistry, markersRef, selectedSectorIds,
                   selectedCid, effectPending, syncIdx, arrived, reconciled, passIsNew, appended,
                   tickView, uiEvents, call, ret>>

\* the keys the cleanup keeps: those of the markers still in the batch, and of entries without a marker
KeptKeys == (DOMAIN pilotRegistry) \ (markersRef \ activeCids)

\* the cleanup after the loop: markers, tracks and entries of the pilots not in the batch
SyncCleanup ==
    /\ pc = "sync" /\ syncIdx > Len(dataRef.pilots)
    /\ pilotRegistry' = Restrict(pilotRegistry, KeptKeys)
    /\ appended' = Restrict(appended, KeptKeys)
    /\ markersRef' = markersRef \cap activeCids
    /\ IF selectedCid # NULL /\ selectedCid[1] \in markersRef \ activeCids
         THEN selectedCid' = NULL /\ effectPending' = TRUE
         ELSE UNCHANGED <<selectedCid, effectPending>>
    /\ pc' = "idle"
    /\ syncIdx' = 0
    /\ activeCids' = {}
    /\ passEnded' = TRUE
    /\ UNCHANGED <<now, trafficData, dataRef, selectedSectorIds, arrived,
                   reconciled, passIsNew, tickView, uiEvents, call, ret>>

\* an entry after a frame: the smoothing is switched off once its duration has passed
AfterFrame(entry, clock) ==
    IF entry.smoothing.active /\ clock - entry.smoothing.startTime >= entry.smoothing.duration
      THEN [entry EXCEPT !.smoothing.active = FALSE]
      ELSE entry

\* a frame that would drop the entries whose snapshot is older than four refresh intervals
FrameKeysFresh == { c \in DOMAIN pilotRegistry :
                      now - pilotRegistry[c].dataTimestamp <= 4 * RefreshInterval }

\* the entries a frame leaves in the registry: animate deletes nothing
FrameKeys == DOMAIN pilotRegistry

\* animate, for what it does to the registry: one frame over every entry that has a marker
AnimateFrame ==
    /\ FrameCanRun
    /\ pilotRegistry' = [c \in FrameKeys |->
                            IF c \in markersRef THEN AfterFrame(pilotRegistry[c], now)
                            ELSE pilotRegistry[c]]
    /\ tickView' = [midPass |-> pc = "sync",
                    torn |-> \E c, d \in DOMAIN pilotRegistry :
                                pilotRegistry[c].lastUpdated # pilotRegistry[d].lastUpdated,
                    skipped |-> (DOMAIN pilotRegistry) \ markersRef,
                    stale |-> \E c \in (DOMAIN pilotRegistry) \cap markersRef :
                                 now - pilotRegistry[c].dataTimestamp > 10 * RefreshInterval]
    /\ UNCHANGED <<now, trafficData, dataRef, markersRef, selectedSectorIds, selectedCid,
                   effectPending, pc, syncIdx, activeCids, arrived, reconciled, passIsNew,
                   passEnded, appended, uiEvents>>

\* animate while no route is drawn
Tick == AnimateFrame /\ UNCHANGED <<call, ret>>

---------------------------------------------------------------------------
(* What a frame shows for one entry: the controller's animate callback and *)
(* the animate callback of lib/useTrafficSimulation.                       *)

\* Math.round: the nearest integer, halves upwards
RRound(a) == RFloor(RAdd(a, Rat(1, 2)))

\* decayFactor = 1 - ease with ease = 1 - (1 - t)^3, while the smoothing is active and its
\* duration has not passed; nothing is added otherwise
decayFactor(entry, clock) ==
    IF entry.smoothing.active /\ clock - entry.smoothing.startTime < entry.smoothing.duration
      THEN LET r == RSub(RInt(1), Rat(clock - entry.smoothing.startTime, entry.smoothing.duration))
           IN  RMul(r, RMul(r, r))
      ELSE RZero

\* the position of the frame before the smoothing: entry.lnav is never set by the sync loop
framePosition(entry, currentHeading, timeSinceUpdate) ==
    IF entry.lnav # NULL /\ entry.lnav.active /\ entry.simpleRoute # NULL
      THEN predictPositionOnRoute(entry.simpleRoute, entry.lnav.startDist, entry.lnav.offset,
                                  RInt(entry.lastData.groundspeed), timeSinceUpdate)
      ELSE predictPosition(entry.lastData.latitude, entry.lastData.longitude, currentHeading,
                           RInt(entry.lastData.groundspeed), timeSinceUpdate)

\* what the frame draws: the smoothing offsets are added after the heading was normalised
frameDrawn(entry, timeSinceUpdate, currentHeading, pred, decay) ==
    [latitude |-> RAdd(RInt(pred.lat), RMul(RInt(entry.smoothing.offsets.lat), decay)),
     longitude |-> RAdd(RInt(pred.lon), RMul(RInt(entry.smoothing.offsets.lon), decay)),
     heading |-> RAdd(currentHeading, RMul(entry.smoothing.offsets.hdg, decay)),
     altitude |-> 25 * RRound(RDiv(RAdd(RInt(entry.lastData.altitude),
                                        RMul(entry.rates.climbRate, timeSinceUpdate)), RInt(25))),
     groundspeed |-> RRound(RInt(entry.lastData.groundspeed))]

frameAt(entry, clock, timeSinceUpdate, currentHeading) ==
    frameDrawn(entry, timeSinceUpdate, currentHeading,
               framePosition(entry, currentHeading, timeSinceUpdate), decayFactor(entry, clock))

\* the controller's animate for one entry: marker position, rotation and the text labels
animateEntry(entry, clock) ==
    frameAt(entry, clock, Seconds(clock - entry.dataTimestamp),
            NormalizeHeading(RAdd(RInt(entry.lastData.heading),
                                  RMul(entry.rates.turnRate, Seconds(clock - entry.dataTimestamp)))))

\* the registry entry the hook's sync effect writes
simulationEntry(existing, pilot, serverTime) ==
    IF existing = NULL
      THEN [lastData |-> pilot, lastUpdated |-> serverTime, rates |-> ZeroRates,
            history |-> << <<pilot.latitude, pilot.longitude>> >>]
      ELSE [lastData |-> pilot, lastUpdated |-> serverTime,
            rates |-> calculateRates(existing.lastData, pilot,
                                     Seconds(serverTime - existing.lastUpdated)),
            history |-> PushHistory(existing.history, <<pilot.latitude, pilot.longitude>>)]

\* a hook frame that would round the altitude to 25 ft, as the controller's label does
interpolatedAtLabel(entry, timeSinceUpdate, currentHeading, currentSpeed) ==
    LET pos == predictPosition(entry.lastData.latitude, entry.lastData.longitude, currentHeading,
                               currentSpeed, timeSinceUpdate)
    IN  [latitude |-> RInt(pos.lat), longitude |-> RInt(pos.lon), heading |-> currentHeading,
         altitude |-> 25 * RRound(RDiv(RAdd(RInt(entry.lastData.altitude),
                                            RMul(entry.rates.climbRate, timeSinceUpdate)),
                                       RInt(25))),
         groundspeed |-> RRound(currentSpeed)]

interpolatedAt(entry, timeSinceUpdate, currentHeading, currentSpeed) ==
    LET pos == predictPosition(entry.lastData.latitude, entry.lastData.longitude, currentHeading,
                               currentSpeed, timeSinceUpdate)
    IN  [latitude |-> RInt(pos.lat), longitude |-> RInt(pos.lon), heading |-> currentHeading,
         altitude |-> RRound(RAdd(RInt(entry.lastData.altitude),
                                  RMul(entry.rates.climbRate, timeSinceUpdate))),
         groundspeed |-> RRound(currentSpeed)]

\* the hook's animate for one entry: the predicted pilot handed to the renderer
interpolated(entry, clock) ==
    interpolatedAt(entry, Seconds(clock - entry.lastUpdated),
                   NormalizeHeading(RAdd(RInt(entry.lastData.heading),
                                         RMul(entry.rates.turnRate,
                                              Seconds(clock - entry.lastUpdated)))),
                   RMax(RZero, RAdd(RInt(entry.lastData.groundspeed),
                                    RMul(entry.rates.accelRate,
                                         Seconds(clock - entry.lastUpdated)))))

---------------------------------------------------------------------------
(* The environment of the controller                                       *)

MaxBatches == 3
MaxAdvances == 1
MaxUiEvents == 1

FlightPlan(route) == [departure |-> "YSSY", arrival |-> "YMML", route |-> route]

\* the snapshots a response can hold for pilot 1 and for pilot 2
Snapshots1 ==
    { [cid |-> 1, callsign |-> "QFA1", latitude |-> 0, longitude |-> -3000, altitude |-> 10000,
       groundspeed |-> 120, heading |-> 90, flight_plan |-> FlightPlan("H65 RAZZI"),
       flight_rules |-> "I"],
      [cid |-> 1, callsign |-> "QFA1", latitude |-> 0, longitude |-> -2700, altitude |-> 10300,
       groundspeed |-> 140, heading |-> 180] }

Snapshots2 ==
    { [cid |-> 2, callsign |-> "VHABC", latitude |-> 0, longitude |-> 0, altitude |-> 5000,
       groundspeed |-> 40, heading |-> 270, flight_rules |-> "V"] }

PilotLists ==
    { <<>> } \cup { <<a>> : a \in Snapshots1 } \cup { <<b>> : b \in Snapshots2 }
    \cup { <<a, b>> : a \in Snapshots1, b \in Snapshots2 }

\* the server stamps a response with the time of its upstream fetch
Batches(clock) == [pilots : PilotLists, serverTime : {clock}]

Advance ==
    /\ pc = "idle" /\ ~effectPending
    /\ now < StartTime + MaxAdvances * TimeStep
    /\ now' = now + TimeStep
    /\ UNCHANGED <<trafficData, dataRef, pilotRegistry, markersRef, selectedSectorIds, selectedCid,
                   effectPending, pc, syncIdx, activeCids, arrived, reconciled, passIsNew,
                   passEnded, appended, tickView, uiEvents, call, ret>>

Init == ControllerInit /\ call = NULL /\ ret = NULL

Next ==
    \/ Advance
    \/ \E b \in Batches(now) : arrived < MaxBatches /\ BatchArrives(b)
    \/ \E id \in SectorIds : uiEvents < MaxUiEvents /\ ToggleSector(id)
    \/ \E cid \in markersRef : uiEvents < MaxUiEvents /\ ClickMarker(cid)
    \/ SyncBegin
    \/ SyncPilot
    \/ SyncThrow
    \/ SyncCleanup
    \/ Tick

Spec == Init /\ [][Next]_vars

---------------------------------------------------------------------------
(* One aircraft followed over many refreshes: every refresh brings a new   *)
(* snapshot of it, 20 s further along its track.                           *)

MaxTrack == 22

\* the k-th snapshot of the aircraft: 120 kt to the east
TrackSnapshot(k) ==
    [cid |-> 1, callsign |-> "QFA1", latitude |-> 0, longitude |-> -3000 + 40 * k,
     altitude |-> 10000 + 100 * k, groundspeed |-> 120, heading |-> 90,
     flight_plan |-> FlightPlan("H65 RAZZI"), flight_rules |-> "I"]

\* the clock advances once the last response has been reconciled
TrackAdvance ==
    /\ pc = "idle" /\ ~effectPending
    /\ trafficData # NULL /\ trafficData = reconciled
    /\ trafficData.serverTime = now
    /\ arrived < MaxTrack
    /\ now' = now + TimeStep
    /\ UNCHANGED <<trafficData, dataRef, pilotRegistry, markersRef, selectedSectorIds, selectedCid,
                   effectPending, pc, syncIdx, activeCids, arrived, reconciled, passIsNew,
                   passEnded, appended, tickView, uiEvents, call, ret>>

\* one response per clock value
TrackArrives ==
    /\ arrived < MaxTrack
    /\ trafficData # NULL => trafficData.serverTime < now
    /\ BatchArrives([pilots |-> <<TrackSnapshot(arrived + 1)>>, serverTime |-> now])

NextHistory ==
    \/ TrackAdvance
    \/ TrackArrives
    \/ SyncBegin
    \/ SyncPilot
    \/ SyncCleanup
    \/ Tick

SpecHistory == Init /\ [][NextHistory]_vars

---------------------------------------------------------------------------
(* The feed stalls: after at most MaxBatches responses no further one      *)
(* arrives, while the clock and the frames go on.                          *)

MaxStale == 12

StaleArrives == \E b \in Batches(now) : arrived < MaxBatches /\ BatchArrives(b)

StaleAdvance ==
    /\ pc = "idle" /\ ~effectPending
    /\ now < StartTime + MaxStale * TimeStep
    /\ (arrived < MaxBatches /\ trafficData = NULL) => now < StartTime + TimeStep
    /\ (arrived < MaxBatches /\ trafficData # NULL) => now < trafficData.serverTime + TimeStep
    /\ now' = now + TimeStep
    /\ UNCHANGED <<trafficData, dataRef, pilotRegistry, markersRef, selectedSectorIds, selectedCid,
                   effectPending, pc, syncIdx, activeCids, arrived, reconciled, passIsNew,
                   passEnded, appended, tickView, uiEvents, call, ret>>

NextStale ==
    \/ StaleArrives
    \/ StaleAdvance
    \/ SyncBegin
    \/ SyncPilot
    \/ SyncThrow
    \/ SyncCleanup
    \/ Tick

SpecStale == Init /\ [][NextStale]_vars

---------------------------------------------------------------------------
(* The pure functions of lib/estimator, each applied to arguments drawn    *)
(* from a bounded set.                                                     *)

Headings == 0 .. (FullCircle - 1)

InitTurn ==
    /\ ControllerInit
    /\ call \in [fn : {"getShortestTurn"}, start : Headings, end : Headings]
    /\ ret = NULL

CallGetShortestTurn ==
    /\ call.fn = "getShortestTurn" /\ ret = NULL
    /\ ret' = Some(getShortestTurn(RInt(call.start), RInt(call.end)))
    /\ UNCHANGED <<call, controllerVars>>

SpecTurn == InitTurn /\ [][CallGetShortestTurn]_vars

KinSamples == [heading : {0, 90, 180, 350}, altitude : {10000, 10300}, groundspeed : {40, 120}]

\* (serverTime - lastUpdated) / 1000 for differences of -15 s, -1 ms, 0, 1 ms, 5 s and 15 s
TimeDeltas == { Rat(ms, 1000) : ms \in {-15000, -1, 0, 1, 5000, 15000} }

InitRates ==
    /\ ControllerInit
    /\ call \in [fn : {"calculateRates"}, oldData : KinSamples, newData : KinSamples,
                  timeDelta : TimeDeltas]
    /\ ret = NULL

CallCalculateRates ==
    /\ call.fn = "calculateRates" /\ ret = NULL
    /\ ret' = Some(calculateRates(call.oldData, call.newData, call.timeDelta))
    /\ UNCHANGED <<call, controllerVars>>

SpecRates == InitRates /\ [][CallCalculateRates]_vars

\* a square sector of 50 nm around the origin
SquareSector == [id |-> "YBBB", latMin |-> -1500, latMax |-> 1500, lonMin |-> -1500, lonMax |-> 1500]

StatusPositions == { [latitude |-> 0, longitude |-> 0],
                     [latitude |-> 0, longitude |-> -3000],
                     [latitude |-> 5000, longitude |-> 0] }

StatusPilots ==
    { [latitude |-> p.latitude, longitude |-> p.longitude, heading |-> h, groundspeed |-> g] :
        p \in StatusPositions, h \in {0, 45, 90, 270}, g \in {0, 40, 49, 50, 51, 120} }
    \cup
    { [latitude |-> p.latitude, longitude |-> p.longitude, heading |-> h] :
        p \in StatusPositions, h \in {0, 45, 90, 270} }

\* a west-east route through the origin; the pilot at the origin is 5000 units along it
EastRoute == << [lat |-> 0, lon |-> -5000], [lat |-> 0, lon |-> 5000] >>

RouteContexts ==
    { [routeLine |-> NULL, distAlongRoute |-> NULL, offset |-> NULL],
      [routeLine |-> EastRoute, distAlongRoute |-> Some(5000), offset |-> Some(0)],
      [routeLine |-> EastRoute, distAlongRoute |-> Some(2000), offset |-> Some(40)],
      [routeLine |-> EastRoute, distAlongRoute |-> NULL, offset |-> Some(0)] }

InitStatus ==
    /\ ControllerInit
    /\ \E p \in StatusPilots, f \in {NULL, SquareSector}, r \in RouteContexts :
         call = [fn |-> "getPilotStatus", pilot |-> p, firPolygon |-> f,
                 routeLine |-> r.routeLine, distAlongRoute |-> r.distAlongRoute, offset |-> r.offset]
    /\ ret = NULL

CallGetPilotStatus ==
    /\ call.fn = "getPilotStatus" /\ ret = NULL
    /\ ret' = Some(getPilotStatus(call.pilot, call.firPolygon, call.routeLine,
                                  call.distAlongRoute, call.offset))
    /\ UNCHANGED <<call, controllerVars>>

SpecStatus == InitStatus /\ [][CallGetPilotStatus]_vars

\* getMinutesToBoundary on chords that cross the sector boundary once, twice or not at all, at
\* negative, zero and positive speeds
ChordStarts == { [lat |-> 0, lon |-> 0], [lat |-> 0, lon |-> -3000], [lat |-> 5000, lon |-> 0] }

ChordEnds == { [lat |-> 0, lon |-> 3000], [lat |-> 0, lon |-> 0], [lat |-> 2000, lon |-> 2000],
               [lat |-> 0, lon |-> -4000], [lat |-> 100, lon |-> 100] }

ChordSpeeds == {-10, 0, 50, 120, 333}

InitMinutes ==
    /\ ControllerInit
    /\ \E a \in ChordStarts, b \in ChordEnds, v \in ChordSpeeds :
         call = [fn |-> "getMinutesToBoundary", currentPt |-> a, pathLine |-> <<a, b>>,
                 polygon |-> SquareSector, speedKts |-> v]
    /\ ret = NULL

CallGetMinutesToBoundary ==
    /\ call.fn = "getMinutesToBoundary" /\ ret = NULL
    /\ ret' = Some(getMinutesToBoundary(call.currentPt, call.pathLine, call.polygon, call.speedKts))
    /\ UNCHANGED <<call, controllerVars>>

SpecMinutes == InitMinutes /\ [][CallGetMinutesToBoundary]_vars

\* the sector logic of the sync loop on up to three active sectors: two adjacent ones and a
\* wide one that contains both
WideSector == [id |-> "YOCE", latMin |-> -6000, latMax |-> 6000, lonMin |-> -6000, lonMax |-> 6000]

CompositeSectors == { SectorFeatureMap[k] : k \in DOMAIN SectorFeatureMap } \cup {WideSector}

CompositeFeatureLists ==
    { <<>> } \cup { <<f>> : f \in CompositeSectors }
    \cup { q \in { <<f, g>> : f \in CompositeSectors, g \in CompositeSectors } : q[1] # q[2] }
    \cup { q \in { <<f, g, h>> : f \in CompositeSectors, g \in CompositeSectors,
                                  h \in CompositeSectors } :
              q[1] # q[2] /\ q[1] # q[3] /\ q[2] # q[3] }

CompositePilots ==
    { [cid |-> 1, latitude |-> 0, longitude |-> lon, heading |-> h, groundspeed |-> g] :
        lon \in {-3000, 0}, h \in {0, 90, 270}, g \in {40, 120} }

InitComposite ==
    /\ ControllerInit
    /\ call \in [fn : {"sectorLogic"}, pilot : CompositePilots, features : CompositeFeatureLists]
    /\ ret = NULL

CallSectorLogic ==
    /\ call.fn = "sectorLogic" /\ ret = NULL
    /\ ret' = Some(CompositeStatus(call.pilot, call.features))
    /\ UNCHANGED <<call, controllerVars>>

SpecComposite == InitComposite /\ [][CallSectorLogic]_vars

\* one frame of either animate loop for an entry reconciled from one snapshot, or from two
\* snapshots one refresh apart: turning through north either way, slowing down, descending
FrameSnapshots ==
    { [cid |-> 1, callsign |-> "QFA1", latitude |-> 0, longitude |-> -3000, altitude |-> 10000,
       groundspeed |-> 120, heading |-> 10],
      [cid |-> 1, callsign |-> "QFA1", latitude |-> 40, longitude |-> -3000, altitude |-> 9000,
       groundspeed |-> 40, heading |-> 350],
      [cid |-> 1, callsign |-> "QFA1", latitude |-> 0, longitude |-> -2960, altitude |-> 10010,
       groundspeed |-> 120, heading |-> 90],
      [cid |-> 1, callsign |-> "QFA1", latitude |-> 0, longitude |-> -3000, altitude |-> 0,
       groundspeed |-> 0, heading |-> 180],
      [cid |-> 1, callsign |-> "QFA1", latitude |-> -40, longitude |-> -3000, altitude |-> 35000,
       groundspeed |-> 450, heading |-> 0] }

\* milliseconds between the reconciliation and the frame
FrameDelays == {0, 700, 1750, 3500, 20000, 40000}

\* the hook measures from the server's timestamp, which the client's clock may not have reached
ClockSkews == {-5000}

FrameCalls ==
    [fn : {"animate", "interpolated"}, prev : {NULL} \cup { Some(a) : a \in FrameSnapshots },
     snap : FrameSnapshots, delay : FrameDelays]
    \cup [fn : {"interpolated"}, prev : {NULL} \cup { Some(a) : a \in FrameSnapshots },
          snap : FrameSnapshots, delay : ClockSkews]

\* the controller's entry after the snapshots of the call were reconciled
ControllerEntryOf(c) ==
    IF c.prev = NULL
      THEN NewEntry(NULL, c.snap, StartTime, StartTime, <<>>, StartTime)
      ELSE NewEntry(NewEntry(NULL, c.prev[1], StartTime - TimeStep, StartTime - TimeStep, <<>>,
                             StartTime - TimeStep),
                    c.snap, StartTime, StartTime, <<>>, StartTime)

\* the hook's entry after the snapshots of the call were reconciled
SimulationEntryOf(c) ==
    IF c.prev = NULL
      THEN simulationEntry(NULL, c.snap, StartTime)
      ELSE simulationEntry(simulationEntry(NULL, c.prev[1], StartTime - TimeStep), c.snap, StartTime)

InitFrame == ControllerInit /\ call \in FrameCalls /\ ret = NULL

CallAnimate ==
    /\ call.fn = "animate" /\ ret = NULL
    /\ ret' = Some(animateEntry(ControllerEntryOf(call), StartTime + call.delay))
    /\ UNCHANGED <<call, controllerVars>>

CallInterpolated ==
    /\ call.fn = "interpolated" /\ ret = NULL
    /\ ret' = Some(interpolated(SimulationEntryOf(call), StartTime + call.delay))
    /\ UNCHANGED <<call, controllerVars>>

NextFrame == CallAnimate \/ CallInterpolated

SpecFrame == InitFrame /\ [][NextFrame]_vars

\* the sync loop's route cache over the successive snapshots of one pilot: flight plans that
\* come and go, change their route string, their arrival or their flight rules
MaxRoute == 3

RoutePlans ==
    { [departure |-> "YSSY", arrival |-> "YMML", route |-> "H65 RAZZI"],
      [departure |-> "YSSY", arrival |-> "YMML", route |-> "DCT"],
      [departure |-> "YSSY", arrival |-> "YBBN", route |-> "DCT"],
      [departure |-> "YSSY", arrival |-> "ZZZZ", route |-> "H65 RAZZI"] }

RoutePilot ==
    [cid |-> 1, callsign |-> "QFA1", latitude |-> 0, longitude |-> -3000, altitude |-> 10000,
     groundspeed |-> 120, heading |-> 90]

RouteSnapshots ==
    {RoutePilot}
    \cup { [cid |-> 1, callsign |-> "QFA1", latitude |-> 0, longitude |-> -3000, altitude |-> 10000,
            groundspeed |-> 120, heading |-> 90, flight_plan |-> fp, flight_rules |-> "I"] :
              fp \in RoutePlans }
    \cup { [cid |-> 1, callsign |-> "QFA1", latitude |-> 0, longitude |-> -3000, altitude |-> 10000,
            groundspeed |-> 120, heading |-> 90, flight_plan |-> fp, flight_rules |-> "V"] :
              fp \in {[departure |-> "YSSY", arrival |-> "YMML", route |-> "DCT"]} }

InitRoute ==
    /\ ControllerInit
    /\ call = [fn |-> "sync", n |-> 0, snap |-> NULL, prev |-> NULL, resolved |-> FALSE,
               thrown |-> FALSE]
    /\ ret = NULL

\* one iteration of the sync loop for the pilot: ret is its registry entry
SyncRoute ==
    /\ call.fn = "sync" /\ call.n < MaxRoute /\ ~call.thrown
    /\ \E snap \in RouteSnapshots :
         IF RouteCheckThrows(ret, snap)
           THEN /\ call' = [fn |-> "sync", n |-> call.n + 1, snap |-> Some(snap), prev |-> ret,
                            resolved |-> FALSE, thrown |-> TRUE]
                /\ ret' = ret
           ELSE /\ call' = [fn |-> "sync", n |-> call.n + 1, snap |-> Some(snap), prev |-> ret,
                            resolved |-> RouteResolved(ret, snap), thrown |-> FALSE]
                /\ ret' = NewEntry(ret, snap, StartTime + call.n * TimeStep,
                                   StartTime + call.n * TimeStep, <<>>,
                                   StartTime + call.n * TimeStep)
    /\ UNCHANGED controllerVars

SpecRoute == InitRoute /\ [][SyncRoute]_vars

\* routes: one straight leg, two legs with a bend, and a route of no length
RouteLines ==
    { << [lat |-> 0, lon |-> 0], [lat |-> 0, lon |-> 100] >>,
      << [lat |-> 0, lon |-> 0], [lat |-> 60, lon |-> 0], [lat |-> 60, lon |-> 80] >>,
      << [lat |-> 10, lon |-> 10], [lat |-> 10, lon |-> 10] >> }

StartDistances == {-10, 0, 50, 140, 200}
LateralOffsets == {-20, -2, 0, 2, 20}
RouteSpeeds == { RInt(kts) : kts \in {-120, 0, 120, 480} }
RouteSeconds == { Rat(ms, 1000) : ms \in {-15000, 0, 7500, 15000, 600000} }

InitOnRoute ==
    /\ ControllerInit
    /\ call \in [fn : {"predictPositionOnRoute"}, routeLine : RouteLines,
                  startDistanceKm : StartDistances, offsetKm : LateralOffsets,
                  speedKts : RouteSpeeds, timeElapsedSec : RouteSeconds]
    /\ ret = NULL

CallPredictPositionOnRoute ==
    /\ call.fn = "predictPositionOnRoute" /\ ret = NULL
    /\ ret' = Some(predictPositionOnRoute(call.routeLine, call.startDistanceKm, call.offsetKm,
                                          call.speedKts, call.timeElapsedSec))
    /\ UNCHANGED <<call, controllerVars>>

SpecOnRoute == InitOnRoute /\ [][CallPredictPositionOnRoute]_vars

---------------------------------------------------------------------------
(* lib/routeParser: parseSmartRoute.  A string is a sequence of one-       *)
(* character strings, a token is such a sequence, a point is the pair      *)
(* <<lat, lon>>; the great circle is a straight line of the flat plane.    *)

LowerLetters == <<"a", "b", "c", "d", "e", "f", "g", "h", "i", "j", "k", "l", "m",
                  "n", "o", "p", "q", "r", "s", "t", "u", "v", "w", "x", "y", "z">>

UpperLetters == <<"A", "B", "C", "D", "E", "F", "G", "H", "I", "J", "K", "L", "M",
                  "N", "O", "P", "Q", "R", "S", "T", "U", "V", "W", "X", "Y", "Z">>

\* String.prototype.toUpperCase
toUpperCase(s) ==
    [k \in 1..Len(s) |->
        IF \E j \in 1..Len(LowerLetters) : LowerLetters[j] = s[k]
          THEN UpperLetters[CHOOSE j \in 1..Len(LowerLetters) : LowerLetters[j] = s[k]]
          ELSE s[k]]

\* \s of the regular expression
IsSpace(c) == c \in {" ", "\t"}

\* split(/\s+/) from position i: cur is the token being read, inSep is TRUE inside a run of
\* white space; a leading or trailing run leaves an empty token
RECURSIVE SplitFrom(_, _, _, _, _)
SplitFrom(s, i, cur, out, inSep) ==
    IF i > Len(s) THEN Append(out, cur)
    ELSE IF IsSpace(s[i])
           THEN SplitFrom(s, i + 1, <<>>, IF inSep THEN out ELSE Append(out, cur), TRUE)
           ELSE SplitFrom(s, i + 1, Append(cur, s[i]), out, FALSE)

split(s) == SplitFrom(s, 1, <<>>, <<>>, FALSE)

DCT == <<"D", "C", "T">>

IsNotDct(p) == p # DCT

\* a tokenization that would keep the letter case
partsCaseSensitive(routeString) == SelectSeq(split(routeString), IsNotDct)

\* routeString.toUpperCase().split(/\s+/).filter(p => p !== 'DCT')
parts(routeString) == SelectSeq(split(toUpperCase(routeString)), IsNotDct)

\* token.includes('/')
includes(token, c) == \E k \in 1..Len(token) : token[k] = c

\* the characters of token before the first c (all of them without a c)
UpTo(token, c) ==
    IF includes(token, c)
      THEN SubSeq(token, 1, (CHOOSE k \in 1..Len(token) :
                               token[k] = c /\ \A j \in 1..(k - 1) : token[j] # c) - 1)
      ELSE token

\* const [procName, rwy] = token.split('/')
procNameOf(token) == UpTo(token, "/")
rwyOf(token) == UpTo(SubSeq(token, Len(procNameOf(token)) + 2, Len(token)), "/")

\* the navigation data: two waypoints, one airway through four fixes, one departure and one
\* arrival procedure of the two airports
WA == <<"W", "A">>
WB == <<"W", "B">>
H6 == <<"H", "6">>

waypointLookup == (WA :> <<-2200, 3000>>) @@ (WB :> <<-3600, -3000>>)

airwayLookup ==
    (H6 :> << [lat |-> -2200, lon |-> 3000, id |-> WA], [lat |-> -2800, lon |-> 1000, id |-> <<"H", "X">>],
              [lat |-> -3200, lon |-> -1000, id |-> <<"H", "Y">>], [lat |-> -3600, lon |-> -3000, id |-> WB] >>)

sidLookup ==
    [YSSY |-> (<< <<"S", "1">>, <<"R">> >> :>
                 << [lat |-> -2050, lon |-> 3900, name |-> <<"S", "A">>],
                    [lat |-> -2100, lon |-> 3500, name |-> <<"S", "B">>] >>)]

starLookup ==
    [YMML |-> (<< <<"T", "1">>, <<"R">> >> :>
                 << [lat |-> -3800, lon |-> -3500, name |-> <<"T", "A">>],
                    [lat |-> -3950, lon |-> -3900, name |-> <<"T", "B">>] >>)]

\* lookup[airportId]?.[procName]?.[rwy], an empty list when there is none
ProcedurePoints(lookup, airportId, token) ==
    IF airportId \in DOMAIN lookup /\ <<procNameOf(token), rwyOf(token)>> \in DOMAIN lookup[airportId]
      THEN lookup[airportId][<<procNameOf(token), rwyOf(token)>>]
      ELSE <<>>

\* startCoords && isValidPoint(startCoords)
isValidPoint(p) == p # NULL

\* the marker of a procedure point
ProcedureMarker(p, type) == [lat |-> p.lat, lon |-> p.lon, name |-> p.name, type |-> type]

\* addLabel: the label at the midpoint of the leg, turned to the bearing from there to its end
addLabel(p1, p2, text) ==
    [lat |-> (p1[1] + p2[1]) \div 2, lon |-> (p1[2] + p2[2]) \div 2, text |-> text,
     bearing |-> bearing([lat |-> (p1[1] + p2[1]) \div 2, lon |-> (p1[2] + p2[2]) \div 2],
                         [lat |-> p2[1], lon |-> p2[2]])]

\* getDist, squared
getDist(p1, p2) == (p1[1] - p2[1]) * (p1[1] - p2[1]) + (p1[2] - p2[2]) * (p1[2] - p2[2])

\* the index (from 1) of the first airway point nearest to loc
NearestIndex(airwayPoints, loc) ==
    CHOOSE j \in 1..Len(airwayPoints) :
       /\ \A k \in 1..Len(airwayPoints) :
             getDist(<<airwayPoints[j].lat, airwayPoints[j].lon>>, loc)
                <= getDist(<<airwayPoints[k].lat, airwayPoints[k].lon>>, loc)
       /\ \A k \in 1..(j - 1) :
             getDist(<<airwayPoints[j].lat, airwayPoints[j].lon>>, loc)
                < getDist(<<airwayPoints[k].lat, airwayPoints[k].lon>>, loc)

\* a walk that would start at the exit index and go back towards the entry index
AirwayPointFromExit(airwayPoints, startIndex, endIndex, m) ==
    LET ap == airwayPoints[IF startIndex < endIndex THEN endIndex - m ELSE endIndex + m]
    IN  <<ap.lat, ap.lon>>

\* the m-th airway point after startIndex towards endIndex, as a point
AirwayPoint(airwayPoints, startIndex, endIndex, m) ==
    LET ap == airwayPoints[IF startIndex <= endIndex THEN startIndex + m ELSE startIndex - m]
    IN  <<ap.lat, ap.lon>>

AirwayPointId(airwayPoints, startIndex, endIndex, m) ==
    airwayPoints[IF startIndex <= endIndex THEN startIndex + m ELSE startIndex - m].id

\* the airway from startIndex to endIndex: its intermediate points become key points and
\* markers, every leg gets a label; one label when both indices are the same
expandAirway(acc, token, airwayPoints, prevLoc, nextLoc, startIndex, endIndex, n) ==
    [keyPoints |-> acc.keyPoints \o [m \in 1..n |-> AirwayPoint(airwayPoints, startIndex, endIndex, m)],
     markers |-> acc.markers \o
                   [m \in 1..n |->
                       [lat |-> AirwayPoint(airwayPoints, startIndex, endIndex, m)[1],
                        lon |-> AirwayPoint(airwayPoints, startIndex, endIndex, m)[2],
                        name |-> AirwayPointId(airwayPoints, startIndex, endIndex, m),
                        type |-> "airway"]],
     labels |-> acc.labels \o
                  [m \in 1..(n + 1) |->
                      addLabel(IF m = 1 THEN prevLoc
                               ELSE AirwayPoint(airwayPoints, startIndex, endIndex, m - 1),
                               IF m = n + 1 THEN nextLoc
                               ELSE AirwayPoint(airwayPoints, startIndex, endIndex, m),
                               token)]]

\* a look-ahead that would take the first known waypoint anywhere after the airway
nextLocOfLookahead(tokens, i, starPoints, endCoords) ==
    IF \E k \in (i + 1)..Len(tokens) : tokens[k] \in DOMAIN waypointLookup
      THEN waypointLookup[tokens[CHOOSE k \in (i + 1)..Len(tokens) :
                                   /\ tokens[k] \in DOMAIN waypointLookup
                                   /\ \A j \in (i + 1)..(k - 1) :
                                         tokens[j] \notin DOMAIN waypointLookup]]
      ELSE IF i < Len(tokens) THEN NULL
      ELSE IF Len(starPoints) > 0 THEN <<starPoints[1].lat, starPoints[1].lon>>
      ELSE IF isValidPoint(endCoords) THEN endCoords
      ELSE NULL

\* the location the airway leads to: the next token if it is a waypoint, the arrival
\* procedure or the arrival airport after the last token
nextLocOf(tokens, i, starPoints, endCoords) ==
    IF i < Len(tokens)
      THEN (IF tokens[i + 1] \in DOMAIN waypointLookup THEN waypointLookup[tokens[i + 1]] ELSE NULL)
      ELSE IF Len(starPoints) > 0 THEN <<starPoints[1].lat, starPoints[1].lon>>
      ELSE IF isValidPoint(endCoords) THEN endCoords
      ELSE NULL

\* an airway branch that would add nothing when both anchors are nearest to the same point
airwayBranchSkipsSameIndex(acc, token, prevLoc, nextLoc) ==
    IF /\ isValidPoint(prevLoc) /\ isValidPoint(nextLoc)
       /\ NearestIndex(airwayLookup[token], prevLoc) # NearestIndex(airwayLookup[token], nextLoc)
      THEN expandAirway(acc, token, airwayLookup[token], prevLoc, nextLoc,
                        NearestIndex(airwayLookup[token], prevLoc),
                        NearestIndex(airwayLookup[token], nextLoc),
                        Abs(NearestIndex(airwayLookup[token], prevLoc)
                            - NearestIndex(airwayLookup[token], nextLoc)) - 1)
      ELSE acc

\* the airway branch of the enroute loop: resolved between the last key point and nextLoc
airwayBranch(acc, token, prevLoc, nextLoc) ==
    IF isValidPoint(prevLoc) /\ isValidPoint(nextLoc)
      THEN expandAirway(acc, token, airwayLookup[token], prevLoc, nextLoc,
                        NearestIndex(airwayLookup[token], prevLoc),
                        NearestIndex(airwayLookup[token], nextLoc),
                        Abs(NearestIndex(airwayLookup[token], prevLoc)
                            - NearestIndex(airwayLookup[token], nextLoc)) - 1
                        + (IF NearestIndex(airwayLookup[token], prevLoc)
                              = NearestIndex(airwayLookup[token], nextLoc) THEN 1 ELSE 0))
      ELSE acc

\* an enroute loop that would stop at the first token it does not know
enrouteTokenStopsAtUnknown(acc, tokens, i, starPoints, endCoords) ==
    IF tokens[i] \in DOMAIN waypointLookup
      THEN [keyPoints |-> Append(acc.keyPoints, waypointLookup[tokens[i]]),
            markers |-> Append(acc.markers,
                               [lat |-> waypointLookup[tokens[i]][1],
                                lon |-> waypointLookup[tokens[i]][2],
                                name |-> tokens[i], type |-> "enroute"]),
            labels |-> acc.labels, i |-> i + 1]
    ELSE IF tokens[i] \in DOMAIN airwayLookup
      THEN [i |-> i + 1] @@
           airwayBranch(acc, tokens[i],
                        IF Len(acc.keyPoints) > 0 THEN acc.keyPoints[Len(acc.keyPoints)] ELSE NULL,
                        nextLocOf(tokens, i, starPoints, endCoords))
    ELSE [keyPoints |-> acc.keyPoints, markers |-> acc.markers, labels |-> acc.labels,
          i |-> Len(tokens) + 1]

\* one iteration of the enroute loop, for tokens[i]
enrouteToken(acc, tokens, i, starPoints, endCoords) ==
    IF tokens[i] \in DOMAIN waypointLookup
      THEN [keyPoints |-> Append(acc.keyPoints, waypointLookup[tokens[i]]),
            markers |-> Append(acc.markers,
                               [lat |-> waypointLookup[tokens[i]][1],
                                lon |-> waypointLookup[tokens[i]][2],
                                name |-> tokens[i], type |-> "enroute"]),
            labels |-> acc.labels, i |-> i + 1]
    ELSE IF tokens[i] \in DOMAIN airwayLookup
      THEN [i |-> i + 1] @@
           airwayBranch(acc, tokens[i],
                        IF Len(acc.keyPoints) > 0 THEN acc.keyPoints[Len(acc.keyPoints)] ELSE NULL,
                        nextLocOf(tokens, i, starPoints, endCoords))
    ELSE [keyPoints |-> acc.keyPoints, markers |-> acc.markers, labels |-> acc.labels,
          i |-> i + 1]

\* turf.greatCircle(start, end, { npoints: 20 })
Npoints == 20

interpolateGreatCircle(p1, p2) ==
    [k \in 1..Npoints |-> <<p1[1] + ((p2[1] - p1[1]) * (k - 1)) \div (Npoints - 1),
                            p1[2] + ((p2[2] - p1[2]) * (k - 1)) \div (Npoints - 1)>>]

\* a densify loop that would keep the first point of every segment
RECURSIVE densifyKeepsJoints(_, _, _)
densifyKeepsJoints(cleanKeyPoints, i, fullCurvedPath) ==
    IF i >= Len(cleanKeyPoints) THEN fullCurvedPath
    ELSE IF cleanKeyPoints[i] = cleanKeyPoints[i + 1]
      THEN densifyKeepsJoints(cleanKeyPoints, i + 1, fullCurvedPath)
    ELSE densifyKeepsJoints(cleanKeyPoints, i + 1,
                            fullCurvedPath
                            \o interpolateGreatCircle(cleanKeyPoints[i], cleanKeyPoints[i + 1]))

\* the densify loop from key point i on
RECURSIVE densify(_, _, _)
densify(cleanKeyPoints, i, fullCurvedPath) ==
    IF i >= Len(cleanKeyPoints) THEN fullCurvedPath
    ELSE IF cleanKeyPoints[i] = cleanKeyPoints[i + 1] THEN densify(cleanKeyPoints, i + 1, fullCurvedPath)
    ELSE densify(cleanKeyPoints, i + 1,
                 IF Len(fullCurvedPath) = 0
                   THEN interpolateGreatCircle(cleanKeyPoints[i], cleanKeyPoints[i + 1])
                   ELSE fullCurvedPath
                        \o Tail(interpolateGreatCircle(cleanKeyPoints[i], cleanKeyPoints[i + 1])))

\* a departure procedure that would be appended after the departure airport
sidHandlingKeepsSeed(keyPoints, tokens, points) ==
    IF Len(tokens) > 0 /\ includes(tokens[1], "/") /\ Len(points) > 0
      THEN [keyPoints |-> keyPoints \o [k \in 1..Len(points) |-> <<points[k].lat, points[k].lon>>],
            markers |-> [k \in 1..Len(points) |-> ProcedureMarker(points[k], "sid")],
            tokens |-> Tail(tokens)]
      ELSE [keyPoints |-> keyPoints, markers |-> <<>>, tokens |-> tokens]

\* the key points, the markers and the remaining tokens after the departure procedure
sidHandling(keyPoints, tokens, points) ==
    IF Len(tokens) > 0 /\ includes(tokens[1], "/") /\ Len(points) > 0
      THEN [keyPoints |-> [k \in 1..Len(points) |-> <<points[k].lat, points[k].lon>>],
            markers |-> [k \in 1..Len(points) |-> ProcedureMarker(points[k], "sid")],
            tokens |-> Tail(tokens)]
      ELSE [keyPoints |-> keyPoints, markers |-> <<>>, tokens |-> tokens]

\* the points of the arrival procedure and the remaining tokens
starHandling(tokens, points) ==
    IF Len(tokens) > 0 /\ includes(tokens[Len(tokens)], "/") /\ Len(points) > 0
      THEN [starPoints |-> points, tokens |-> SubSeq(tokens, 1, Len(tokens) - 1)]
      ELSE [starPoints |-> <<>>, tokens |-> tokens]

\* the state at the head of the enroute loop
enrouteState(sid, star) ==
    [stage |-> "enroute", tokens |-> star.tokens, i |-> 1, keyPoints |-> sid.keyPoints,
     markers |-> sid.markers, labels |-> <<>>, starPoints |-> star.starPoints, result |-> NULL]

afterSid(sid, arrAirportId) ==
    enrouteState(sid, starHandling(sid.tokens,
                                   IF Len(sid.tokens) > 0
                                     THEN ProcedurePoints(starLookup, arrAirportId,
                                                          sid.tokens[Len(sid.tokens)])
                                     ELSE <<>>))

afterTokenization(keyPoints, tokens, depAirportId, arrAirportId) ==
    afterSid(sidHandling(keyPoints, tokens,
                         IF Len(tokens) > 0 THEN ProcedurePoints(sidLookup, depAirportId, tokens[1])
                         ELSE <<>>),
             arrAirportId)

\* the return of the empty route string
emptyRoute(keyPoints, endCoords) ==
    [stage |-> "done", tokens |-> <<>>, i |-> 1,
     keyPoints |-> IF isValidPoint(endCoords) THEN Append(keyPoints, endCoords) ELSE keyPoints,
     markers |-> <<>>, labels |-> <<>>, starPoints |-> <<>>,
     result |-> [path |-> IF isValidPoint(endCoords) THEN Append(keyPoints, endCoords) ELSE keyPoints,
                 waypoints |-> <<>>, labels |-> <<>>]]

\* a parser that would treat the empty route string like any other
parseBeginNoEarlyReturn(routeString, startCoords, endCoords, depAirportId, arrAirportId) ==
    afterTokenization(IF isValidPoint(startCoords) THEN <<startCoords>> ELSE <<>>,
                      parts(routeString), depAirportId, arrAirportId)

\* parseSmartRoute up to the enroute loop
parseBegin(routeString, startCoords, endCoords, depAirportId, arrAirportId) ==
    IF routeString = <<>>
      THEN emptyRoute(IF isValidPoint(startCoords) THEN <<startCoords>> ELSE <<>>, endCoords)
      ELSE afterTokenization(IF isValidPoint(startCoords) THEN <<startCoords>> ELSE <<>>,
                             parts(routeString), depAirportId, arrAirportId)

\* the state after the iteration of the enroute loop for tokens[i]
afterToken(st, step) ==
    [st EXCEPT !.keyPoints = step.keyPoints, !.markers = step.markers, !.labels = step.labels,
               !.i = step.i]

parseToken(st, endCoords) ==
    afterToken(st, enrouteToken([keyPoints |-> st.keyPoints, markers |-> st.markers,
                                 labels |-> st.labels],
                                st.tokens, st.i, st.starPoints, endCoords))

\* key points to which the arrival airport would always be appended
withEndAlways(keyPoints, endCoords) ==
    IF isValidPoint(endCoords) THEN Append(keyPoints, endCoords) ELSE keyPoints

\* the key points with the arrival airport, unless they end there
withEnd(keyPoints, endCoords) ==
    IF isValidPoint(endCoords) /\ (Len(keyPoints) = 0 \/ keyPoints[Len(keyPoints)] # endCoords)
      THEN Append(keyPoints, endCoords)
      ELSE keyPoints

finished(st, keyPoints, markers) ==
    [st EXCEPT !.stage = "done", !.keyPoints = keyPoints, !.markers = markers,
               !.result = IF Len(keyPoints) < 2
                            THEN [path |-> keyPoints, waypoints |-> markers, labels |-> <<>>]
                            ELSE [path |-> densify(keyPoints, 1, <<>>), waypoints |-> markers,
                                  labels |-> st.labels]]

\* parseSmartRoute after the enroute loop: the arrival procedure, the arrival airport, the
\* dense path
parseEnd(st, endCoords) ==
    finished(st,
             withEnd(st.keyPoints
                     \o [k \in 1..Len(st.starPoints) |-> <<st.starPoints[k].lat, st.starPoints[k].lon>>],
                     endCoords),
             st.markers \o [k \in 1..Len(st.starPoints) |-> ProcedureMarker(st.starPoints[k], "star")])

RECURSIVE enrouteLoop(_, _)
enrouteLoop(st, endCoords) ==
    IF st.stage = "done" THEN st
    ELSE IF st.i <= Len(st.tokens) THEN enrouteLoop(parseToken(st, endCoords), endCoords)
    ELSE parseEnd(st, endCoords)

\* parseSmartRoute: the final state of its local variables, with the RouteResult in result
parseSmartRoute(routeString, startCoords, endCoords, depAirportId, arrAirportId) ==
    enrouteLoop(parseBegin(routeString, startCoords, endCoords, depAirportId, arrAirportId),
                endCoords)

\* route strings of up to MaxTokens words separated by one space, and some with other white
\* space; with both airports known (the arrival airport may lie on the waypoint WB) or none
MaxTokens == 3

Words ==
    { WA, <<"w", "a">>, WB, H6, <<"Z", "Z">>, DCT, <<"d", "c", "t">>,
      <<"S", "1", "/", "R">>, <<"T", "1", "/", "R">>, <<"Q", "/">> }

RECURSIVE join(_)
join(ws) == IF Len(ws) = 0 THEN <<>>
            ELSE IF Len(ws) = 1 THEN ws[1]
            ELSE ws[1] \o <<" ">> \o join(Tail(ws))

OddStrings ==
    { <<" ">>, <<" ", "W", "A">>, <<"H", "6", " ">>, <<"W", "A", " ", " ", "W", "B">>,
      <<"W", "A", "\t", "D", "c", "t", " ", "h", "6">>, <<" ", "D", "C", "T">> }

RouteStrings == { join(ws) : ws \in UNION { [1..n -> Words] : n \in 0..MaxTokens } } \cup OddStrings

ParseCalls ==
    [fn : {"parseSmartRoute"}, routeString : RouteStrings,
     startCoords : {<<AirportLookup.YSSY.lat, AirportLookup.YSSY.lon>>},
     endCoords : {<<AirportLookup.YMML.lat, AirportLookup.YMML.lon>>, waypointLookup[WB]},
     depAirportId : {"YSSY"}, arrAirportId : {"YMML"}]
    \cup [fn : {"parseSmartRoute"}, routeString : RouteStrings, startCoords : {NULL},
          endCoords : {NULL}, depAirportId : {"YSSY"}, arrAirportId : {"YMML"}]

InitParse == ControllerInit /\ call \in ParseCalls /\ ret = NULL

ParseBegin ==
    /\ call.fn = "parseSmartRoute" /\ ret = NULL
    /\ ret' = parseBegin(call.routeString, call.startCoords, call.endCoords, call.depAirportId,
                         call.arrAirportId)
    /\ UNCHANGED <<call, controllerVars>>

ParseToken ==
    /\ call.fn = "parseSmartRoute" /\ ret # NULL
    /\ ret.stage = "enroute" /\ ret.i <= Len(ret.tokens)
    /\ ret' = parseToken(ret, call.endCoords)
    /\ UNCHANGED <<call, controllerVars>>

ParseEnd ==
    /\ call.fn = "parseSmartRoute" /\ ret # NULL
    /\ ret.stage = "enroute" /\ ret.i > Len(ret.tokens)
    /\ ret' = parseEnd(ret, call.endCoords)
    /\ UNCHANGED <<call, controllerVars>>

NextParse == ParseBegin \/ ParseToken \/ ParseEnd

SpecParse == InitParse /\ [][NextParse]_vars

---------------------------------------------------------------------------
(* components/traffic-controller: the route of the selected or hovered      *)
(* aircraft.  The refs of the route lines are kept in call                  *)
(* (selectedCidRef, hoveredCidRef, activeRoutePathRef, pastLineRef,         *)
(* futureLineRef, and whether the two lines are on the route layer); ret    *)
(* holds the splits of the last frame.  One response with three aircraft    *)
(* arrives; the pointer is over at most one marker, and a click is on the   *)
(* marker under the pointer.                                                *)

MaxPointerEvents == 4

\* one mile in position units: below it the rest of the route is moved onto the aircraft
SnapDistance == 60

\* the vertex of the path nearest to the aircraft (from 1, the first of several)
NearestVertex(path, planePos) ==
    CHOOSE j \in 1..Len(path) :
       /\ \A k \in 1..Len(path) : getDist(path[j], planePos) <= getDist(path[k], planePos)
       /\ \A k \in 1..(j - 1) : getDist(path[k], planePos) > getDist(path[j], planePos)

\* snapped.properties.index + 1: the segment of the path the aircraft is nearest to, taken
\* as the segment at the nearest vertex on the side of the nearer neighbour
SplitIndex(path, planePos) ==
    LET v == NearestVertex(path, planePos)
    IN  IF v = Len(path) THEN v - 1
        ELSE IF v = 1 THEN 1
        ELSE IF getDist(path[v - 1], planePos) <= getDist(path[v + 1], planePos) THEN v - 1
        ELSE v

\* splitRouteAtPlane: the route up to the aircraft and the route from the aircraft on
splitRouteAtPlane(path, planePos) ==
    IF Len(path) < 2 THEN [past |-> <<>>, future |-> <<>>]
    ELSE IF ~isValidPoint(planePos) THEN [past |-> path, future |-> <<>>]
    ELSE [past |-> Append(SubSeq(path, 1, SplitIndex(path, planePos)), planePos),
          future |->
             IF getDist(path[NearestVertex(path, planePos)], planePos) < SnapDistance * SnapDistance
               THEN <<planePos>> \o
                    [k \in 1..(Len(path) - SplitIndex(path, planePos)) |->
                       <<path[SplitIndex(path, planePos) + k][1]
                            + planePos[1] - path[NearestVertex(path, planePos)][1],
                         path[SplitIndex(path, planePos) + k][2]
                            + planePos[2] - path[NearestVertex(path, planePos)][2]>>]
               ELSE <<planePos>> \o SubSeq(path, SplitIndex(path, planePos) + 1, Len(path))]

\* airportLookup.current[id] as the parser takes it
AirportCoords(id) ==
    IF id \in DOMAIN AirportLookup THEN <<AirportLookup[id].lat, AirportLookup[id].lon>> ELSE NULL

\* result.path of drawRouteForPilot for a flight plan
PlanPath(plan) ==
    IF Len(plan.route) > 0 \/ (AirportCoords(plan.departure) # NULL /\ AirportCoords(plan.arrival) # NULL)
      THEN parseSmartRoute(plan.route, AirportCoords(plan.departure), AirportCoords(plan.arrival),
                           plan.departure, plan.arrival).result.path
      ELSE <<>>

\* routeLayerGroup.clearLayers()
clearLayers(refs) == [refs EXCEPT !.onLayer = FALSE]

\* drawRouteForPilot: nothing for a pilot without entry or flight plan; else the old route
\* is cleared and the pilot's route becomes the active one, with two new lines when its path
\* is not empty
drawRouteForPilot(refs, cid) ==
    IF cid \notin DOMAIN pilotRegistry \/ ~HasFlightPlan(pilotRegistry[cid].lastData) THEN refs
    ELSE [refs EXCEPT !.onLayer = Len(PlanPath(pilotRegistry[cid].lastData.flight_plan)) > 0,
                      !.activeRoutePathRef = PlanPath(pilotRegistry[cid].lastData.flight_plan),
                      !.pastLineRef =
                          IF Len(PlanPath(pilotRegistry[cid].lastData.flight_plan)) > 0
                            THEN Some(<<>>) ELSE NULL,
                      !.futureLineRef =
                          IF Len(PlanPath(pilotRegistry[cid].lastData.flight_plan)) > 0
                            THEN Some(<<>>) ELSE NULL]

\* what a pointer event leaves alone
PointerFrame ==
    /\ uiEvents' = uiEvents + 1
    /\ UNCHANGED <<now, trafficData, dataRef, pilotRegistry, markersRef, selectedSectorIds, pc,
                   syncIdx, activeCids, arrived, reconciled, passIsNew, passEnded, appended,
                   tickView, ret>>

\* marker.on('click') with the route refs: release the lock, or lock on the pilot and draw
\* its route
MarkerClick(cid) ==
    /\ call.fn = "routeLines" /\ pc = "idle" /\ ~effectPending
    /\ cid \in markersRef /\ call.hoveredCidRef = Some(cid)
    /\ IF call.selectedCidRef = Some(cid)
         THEN /\ call' = clearLayers([call EXCEPT !.selectedCidRef = NULL])
              /\ selectedCid' = NULL
         ELSE /\ call' = drawRouteForPilot([call EXCEPT !.selectedCidRef = Some(cid)], cid)
              /\ selectedCid' = Some(cid)
    /\ effectPending' = (selectedCid' # selectedCid)
    /\ PointerFrame

\* marker.on('mouseover'): the preview is drawn only while nothing is locked
MarkerOver(cid) ==
    /\ call.fn = "routeLines" /\ pc = "idle" /\ ~effectPending
    /\ cid \in markersRef /\ call.hoveredCidRef = NULL
    /\ call' = IF call.selectedCidRef = NULL
                 THEN drawRouteForPilot([call EXCEPT !.hoveredCidRef = Some(cid)], cid)
                 ELSE [call EXCEPT !.hoveredCidRef = Some(cid)]
    /\ UNCHANGED <<selectedCid, effectPending>>
    /\ PointerFrame

\* marker.on('mouseout'): the preview is cleared only while nothing is locked
MarkerOut(cid) ==
    /\ call.fn = "routeLines" /\ pc = "idle" /\ ~effectPending
    /\ cid \in markersRef /\ call.hoveredCidRef = Some(cid)
    /\ call' = IF call.selectedCidRef = NULL
                 THEN clearLayers([call EXCEPT !.hoveredCidRef = NULL, !.activeRoutePathRef = <<>>])
                 ELSE [call EXCEPT !.hoveredCidRef = NULL]
    /\ UNCHANGED <<selectedCid, effectPending>>
    /\ PointerFrame

\* the cids of a set in the order of Object.entries: ascending
RECURSIVE Ascending(_)
Ascending(S) ==
    IF S = {} THEN <<>>
    ELSE <<CHOOSE c \in S : \A d \in S : c <= d>>
         \o Ascending(S \ {CHOOSE c \in S : \A d \in S : c <= d})

\* [lat, lon] of an entry in a frame
DrawnPosition(entry, clock) ==
    <<RFloor(animateEntry(entry, clock).latitude), RFloor(animateEntry(entry, clock).longitude)>>

\* the entries whose frame updates the route lines: the selected and the hovered one
StickyCids(refs) ==
    IF Len(refs.activeRoutePathRef) > 0
      THEN Ascending({ c \in (DOMAIN pilotRegistry) \cap markersRef :
                         refs.selectedCidRef = Some(c) \/ refs.hoveredCidRef = Some(c) })
      ELSE <<>>

\* the splits of a frame, in the order of the entries
FrameSplits(refs, clock) ==
    [k \in 1..Len(StickyCids(refs)) |->
        [cid |-> StickyCids(refs)[k], path |-> refs.activeRoutePathRef,
         at |-> DrawnPosition(pilotRegistry[StickyCids(refs)[k]], clock),
         lines |-> splitRouteAtPlane(refs.activeRoutePathRef,
                                     DrawnPosition(pilotRegistry[StickyCids(refs)[k]], clock))]]

\* the line after the splits: setLatLngs of every split whose part is not empty
LineAfter(line, splits, part) ==
    IF line = NULL \/ \A k \in 1..Len(splits) : Len(splits[k].lines[part]) = 0 THEN line
    ELSE Some(splits[CHOOSE k \in 1..Len(splits) :
                        /\ Len(splits[k].lines[part]) > 0
                        /\ \A j \in (k + 1)..Len(splits) : Len(splits[j].lines[part]) = 0].lines[part])

\* animate with the sticky route lines
AnimateRouteLines ==
    /\ call.fn = "routeLines"
    /\ AnimateFrame
    /\ ret' = FrameSplits(call, now)
    /\ call' = [call EXCEPT !.pastLineRef = LineAfter(@, FrameSplits(call, now), "past"),
                             !.futureLineRef = LineAfter(@, FrameSplits(call, now), "future")]

\* three aircraft: two with a flight plan from YSSY to YMML, over WA and over WB, one without
LinePilots ==
    << [cid |-> 1, callsign |-> "QFA1", latitude |-> -2100, longitude |-> 3500, altitude |-> 10000,
        groundspeed |-> 120, heading |-> 270, flight_rules |-> "V",
        flight_plan |-> [departure |-> "YSSY", arrival |-> "YMML", route |-> WA]],
       [cid |-> 2, callsign |-> "JST2", latitude |-> -3500, longitude |-> -2500, altitude |-> 9000,
        groundspeed |-> 120, heading |-> 180, flight_rules |-> "V",
        flight_plan |-> [departure |-> "YSSY", arrival |-> "YMML", route |-> WB]],
       [cid |-> 3, callsign |-> "VHABC", latitude |-> 0, longitude |-> 0, altitude |-> 5000,
        groundspeed |-> 40, heading |-> 90, flight_rules |-> "V"] >>

InitRouteLines ==
    /\ ControllerInit
    /\ call = [fn |-> "routeLines", selectedCidRef |-> NULL, hoveredCidRef |-> NULL,
               activeRoutePathRef |-> <<>>, pastLineRef |-> NULL, futureLineRef |-> NULL,
               onLayer |-> FALSE]
    /\ ret = <<>>

NextRouteLines ==
    \/ Advance
    \/ arrived < 1 /\ BatchArrives([pilots |-> LinePilots, serverTime |-> now])
    \/ SyncBegin
    \/ SyncPilot
    \/ SyncCleanup
    \/ \E cid \in markersRef : uiEvents < MaxPointerEvents /\ MarkerClick(cid)
    \/ \E cid \in markersRef : uiEvents < MaxPointerEvents /\ MarkerOver(cid)
    \/ \E cid \in markersRef : uiEvents < MaxPointerEvents /\ MarkerOut(cid)
    \/ AnimateRouteLines

SpecRouteLines == InitRouteLines /\ [][NextRouteLines]_vars

---------------------------------------------------------------------------
(* app/api/traffic/route: the GET handler.  The handler is an async         *)
(* function: it runs to its await of the upstream fetch, and later from     *)
(* there to its return; several requests can be between the two.  The       *)
(* server's state is kept in call (the clock, the module's cache, every     *)
(* request's position and its own now), the responses sent so far in ret.   *)

\* the age after which the cache is fetched again, and the time between two readings of
\* Date.now()
CacheWindow == 15000
ClockStep == 8000

MaxRequests == 3
MaxClock == 3

Requests == 1..MaxRequests

cache == call.cache

\* the handler up to its first await: a fresh cache is answered at once
GetBegin(r) ==
    /\ call.fn = "GET" /\ call.requests[r].pc = "idle"
    /\ IF cache.data = NULL \/ call.clock - cache.lastFetched > CacheWindow
         THEN /\ call' = [call EXCEPT !.requests[r] = [pc |-> "fetching", now |-> call.clock]]
              /\ ret' = ret
         ELSE /\ call' = [call EXCEPT !.requests[r] = [pc |-> "done", now |-> call.clock]]
              /\ ret' = Append(ret, [request |-> r, status |-> 200, pilots |-> cache.data,
                                      serverTime |-> cache.lastFetched])
    /\ UNCHANGED controllerVars

\* the upstream fetch of request r has succeeded: the cache is replaced with the data and
\* the request's own now, and answered from
GetFetched(r) ==
    /\ call.fn = "GET" /\ call.requests[r].pc = "fetching"
    /\ call' = [call EXCEPT !.requests[r].pc = "done",
                             !.cache = [data |-> Some(call.clock),
                                        lastFetched |-> call.requests[r].now]]
    /\ ret' = Append(ret, [request |-> r, status |-> 200, pilots |-> Some(call.clock),
                            serverTime |-> call.requests[r].now])
    /\ UNCHANGED controllerVars

\* the upstream fetch of request r has failed: the cache stays, the answer is an error
GetFailed(r) ==
    /\ call.fn = "GET" /\ call.requests[r].pc = "fetching"
    /\ call' = [call EXCEPT !.requests[r].pc = "done"]
    /\ ret' = Append(ret, [request |-> r, status |-> 500])
    /\ UNCHANGED controllerVars

\* time passes on the server
ServerClock ==
    /\ call.fn = "GET" /\ call.clock < StartTime + MaxClock * ClockStep
    /\ call' = [call EXCEPT !.clock = @ + ClockStep]
    /\ UNCHANGED <<ret, controllerVars>>

InitEndpoint ==
    /\ ControllerInit
    /\ call = [fn |-> "GET", clock |-> StartTime, cache |-> [data |-> NULL, lastFetched |-> 0],
               requests |-> [r \in Requests |-> [pc |-> "idle", now |-> 0]]]
    /\ ret = <<>>

NextEndpoint ==
    \/ \E r \in Requests : GetBegin(r)
    \/ \E r \in Requests : GetFetched(r)
    \/ \E r \in Requests : GetFailed(r)
    \/ ServerClock

SpecEndpoint == InitEndpoint /\ [][NextEndpoint]_vars

---------------------------------------------------------------------------
(* Claims about the traffic endpoint                                       *)

\* C28: the serverTime of successive responses of the traffic endpoint never decreases,
\* also when two requests overlap while the cache is stale and their upstream fetches end
\* in the opposite order.
C28_ServerTimeNeverDecreases ==
    call.fn = "GET" =>
        \A i, j \in 1..Len(ret) :
            (i < j /\ ret[i].status = 200 /\ ret[j].status = 200)
                => ret[i].serverTime <= ret[j].serverTime

---------------------------------------------------------------------------
(* Claims about the reconciliation                                         *)

\* the position a frame at the time clock shows for the entry
ShownPosition(entry, clock) ==
    <<animateEntry(entry, clock).latitude, animateEntry(entry, clock).longitude>>

\* the position predicted from the entry's snapshot alone, without correction offset
RawPosition(entry, clock) ==
    LET timeSinceUpdate == Seconds(clock - entry.dataTimestamp)
        pred == framePosition(entry,
                              NormalizeHeading(RAdd(RInt(entry.lastData.heading),
                                                    RMul(entry.rates.turnRate, timeSinceUpdate))),
                              timeSinceUpdate)
    IN  <<RInt(pred.lat), RInt(pred.lon)>>

\* the step is the pass's iteration for a pilot that has an entry already
ReconcilesTracked ==
    /\ pc = "sync" /\ syncIdx' = syncIdx + 1
    /\ CurrentPilot.cid \in DOMAIN pilotRegistry

\* the pass leaves the shown position of a tracked pilot where it was
C27_NoJumpAtPass ==
    ReconcilesTracked =>
        ShownPosition(pilotRegistry'[CurrentPilot.cid], now)
           = ShownPosition(pilotRegistry[CurrentPilot.cid], now)

\* once the smoothing duration has passed, the shown position is the predicted one
C27_OffsetGoneAfterDuration ==
    \A c \in DOMAIN pilotRegistry :
        now - pilotRegistry[c].smoothing.startTime >= SmoothingDuration
           => ShownPosition(pilotRegistry[c], now) = RawPosition(pilotRegistry[c], now)

\* C27: a reconciliation pass does not move what is shown: right after the pass the shown
\* position of a pilot that was tracked before equals the position shown right before it;
\* the correction offset is gone SmoothingDuration ms after the pass, and from then on the
\* shown position is the predicted position.
C27_ReconciliationWithoutJump ==
    [][C27_NoJumpAtPass /\ C27_OffsetGoneAfterDuration]_vars

---------------------------------------------------------------------------
(* Claims about the route lines                                            *)

\* the route drawRouteForPilot draws for the pilot: none without a flight plan
RouteOf(cid) ==
    IF cid \in DOMAIN pilotRegistry /\ HasFlightPlan(pilotRegistry[cid].lastData)
      THEN PlanPath(pilotRegistry[cid].lastData.flight_plan)
      ELSE <<>>

\* C30: whenever a frame updates the past and future route lines, the route it splits is
\* the route of the aircraft whose position it splits at; while one aircraft is selected,
\* hovering over another one never splits the selected aircraft's route at the hovered
\* aircraft's position.
C30_SplitRouteIsOwnRoute ==
    call.fn = "routeLines" =>
        \A k \in 1..Len(ret) : ret[k].path = RouteOf(ret[k].cid)

---------------------------------------------------------------------------
(* Claims about the stalled feed                                           *)

\* C13: while no batch arrives, no step outside a reconciliation pass removes an entity or
\* changes its last snapshot and rates, and every frame draws every entity of the registry,
\* however old its snapshot is.
C13_FramesKeepEveryEntity ==
    [][ (pc = "idle" /\ pc' = "idle") =>
          /\ DOMAIN pilotRegistry' = DOMAIN pilotRegistry
          /\ \A c \in DOMAIN pilotRegistry :
                /\ pilotRegistry'[c].lastData = pilotRegistry[c].lastData
                /\ pilotRegistry'[c].rates = pilotRegistry[c].rates
                /\ pilotRegistry'[c].dataTimestamp = pilotRegistry[c].dataTimestamp
          /\ tickView' # NULL => tickView'.skipped = {} ]_vars

\* a frame has drawn two entities with non-zero rates from snapshots older than ten refresh
\* intervals
C13_Witness ==
    /\ tickView # NULL /\ tickView.stale
    /\ Cardinality(DOMAIN pilotRegistry) = 2
    /\ \E c \in DOMAIN pilotRegistry :
          /\ pilotRegistry[c].rates # ZeroRates
          /\ now - pilotRegistry[c].dataTimestamp > 10 * RefreshInterval

---------------------------------------------------------------------------
(* Claims about the frames                                                 *)

\* C14: at any elapsed time and for any rates, the heading a frame shows lies in [0, 360) and
\* the speed it shows is never negative.
C14_HeadingAndSpeedInRange ==
    ret # NULL =>
       /\ RLe(RZero, ret[1].heading) /\ RLt(ret[1].heading, RInt(FullCircle))
       /\ ret[1].groundspeed >= 0

---------------------------------------------------------------------------
(* Claims about the route cache                                            *)

\* the route string of a snapshot: undefined (NULL) without a flight plan
RouteStringOf(data) == IF HasFlightPlan(data) THEN Some(data.flight_plan.route) ELSE NULL

\* C16: after a snapshot with an IFR flight plan and known departure and arrival has been
\* reconciled, the cached route is the geometry resolved for that snapshot's route string,
\* departure and arrival.
C16_CacheIsForLatestPlan ==
    (call.fn = "sync" /\ call.n > 0 /\ ~call.thrown /\ RouteBlockApplies(call.snap[1])) =>
       ret.simpleRoute = parseSimpleRoute(call.snap[1].flight_plan.route,
                                          AirportLookup[call.snap[1].flight_plan.departure],
                                          AirportLookup[call.snap[1].flight_plan.arrival])

\* C17: reconciling a snapshot of an entity that has a cached route resolves the route again
\* if and only if the snapshot's route string differs from the previous snapshot's, and keeps
\* the cached geometry otherwise.
C17_ResolvedIffRouteStringChanged ==
    (call.fn = "sync" /\ call.n > 0 /\ call.prev # NULL /\ call.prev.simpleRoute # NULL) =>
       /\ ~call.thrown
       /\ call.resolved <=> RouteStringOf(call.snap[1]) # RouteStringOf(call.prev.lastData)
       /\ ~call.resolved => ret.simpleRoute = call.prev.simpleRoute

---------------------------------------------------------------------------
(* Claims about the route resolution                                       *)

\* a token that is neither a waypoint nor an airway
UnknownToken(token) == token \notin DOMAIN waypointLookup /\ token \notin DOMAIN airwayLookup

\* C18: the iteration of the enroute loop for a token that is neither a known waypoint nor a
\* known airway adds no key point, no marker and no label, and the loop goes on with the
\* next token.
C18_UnknownTokenIsSkipped ==
    [][ (ret # NULL /\ ret.stage = "enroute" /\ ret.i <= Len(ret.tokens)
         /\ UnknownToken(ret.tokens[ret.i])) =>
           /\ ret'.stage = "enroute" /\ ret'.i = ret.i + 1 /\ ret'.tokens = ret.tokens
           /\ ret'.keyPoints = ret.keyPoints
           /\ ret'.markers = ret.markers
           /\ ret'.labels = ret.labels ]_vars

\* a finished resolution whose route had an unknown token before a waypoint, with the marker
\* of that waypoint in the result
C18_Witness ==
    /\ ret # NULL /\ ret.stage = "done"
    /\ \E i \in 1..(Len(ret.tokens) - 1) :
          /\ UnknownToken(ret.tokens[i]) /\ ret.tokens[i] # <<>>
          /\ ret.tokens[i + 1] \in DOMAIN waypointLookup
          /\ \E m \in 1..Len(ret.result.waypoints) :
                /\ ret.result.waypoints[m].name = ret.tokens[i + 1]
                /\ ret.result.waypoints[m].type = "enroute"

\* C19: the empty route string with valid departure and arrival coordinates resolves to
\* exactly two key points, the departure first and the arrival last, with no marker and no
\* leg label.
C19_EmptyRouteIsDirect ==
    (ret # NULL /\ call.fn = "parseSmartRoute" /\ call.routeString = <<>>
     /\ isValidPoint(call.startCoords) /\ isValidPoint(call.endCoords)) =>
       /\ ret.stage = "done"
       /\ ret.keyPoints = <<call.startCoords, call.endCoords>>
       /\ ret.result.path = <<call.startCoords, call.endCoords>>
       /\ ret.result.waypoints = <<>>
       /\ ret.result.labels = <<>>

\* the empty route string has been resolved between two different airports
C19_Witness ==
    /\ ret # NULL /\ call.fn = "parseSmartRoute" /\ call.routeString = <<>>
    /\ isValidPoint(call.startCoords) /\ isValidPoint(call.endCoords)
    /\ call.startCoords # call.endCoords
    /\ Len(ret.result.path) = 2

\* the upper-cased form of a route string with every token equal to DCT removed
Canonical(routeString) == join(SelectSeq(split(toUpperCase(routeString)), IsNotDct))

\* the key points, markers and labels of a finished resolution
Resolved(st) == [keyPoints |-> st.keyPoints, waypoints |-> st.result.waypoints,
                 labels |-> st.result.labels]

AtLoopHead == ret # NULL /\ call.fn = "parseSmartRoute" /\ ret.stage = "enroute" /\ ret.i = 1

\* the first token names a departure procedure of the departure airport
SidMatched ==
    /\ Len(parts(call.routeString)) > 0
    /\ includes(parts(call.routeString)[1], "/")
    /\ Len(ProcedurePoints(sidLookup, call.depAirportId, parts(call.routeString)[1])) > 0

\* C21: when the first token contains '/' and names a non-empty departure procedure, the key
\* points before the enroute loop are that procedure's points in order instead of the
\* departure, each with a 'sid' marker, and the token is consumed; otherwise the departure
\* stays the first key point, there is no marker and the first token is left in place.
C21_SidReplacesDeparture ==
    AtLoopHead =>
       IF SidMatched
         THEN LET points == ProcedurePoints(sidLookup, call.depAirportId, parts(call.routeString)[1])
              IN  /\ Len(ret.keyPoints) = Len(points) /\ Len(ret.markers) = Len(points)
                  /\ \A k \in 1..Len(points) :
                        /\ ret.keyPoints[k] = <<points[k].lat, points[k].lon>>
                        /\ ret.markers[k].type = "sid"
                        /\ ret.markers[k].name = points[k].name
                        /\ <<ret.markers[k].lat, ret.markers[k].lon>> = ret.keyPoints[k]
                  /\ ret.tokens = SubSeq(parts(call.routeString), 2, 1 + Len(ret.tokens))
                  /\ Len(ret.tokens) + (IF Len(ret.starPoints) > 0 THEN 1 ELSE 0)
                        = Len(parts(call.routeString)) - 1
         ELSE /\ ret.keyPoints = (IF isValidPoint(call.startCoords) THEN <<call.startCoords>> ELSE <<>>)
              /\ ret.markers = <<>>
              /\ ret.tokens = SubSeq(parts(call.routeString), 1, Len(ret.tokens))
              /\ Len(ret.tokens) + (IF Len(ret.starPoints) > 0 THEN 1 ELSE 0)
                    = Len(parts(call.routeString))

\* a departure procedure has replaced a valid departure coordinate, with tokens left
C21_Witness ==
    /\ AtLoopHead /\ SidMatched /\ isValidPoint(call.startCoords)
    /\ Len(ret.keyPoints) = 2 /\ ret.keyPoints[1] # call.startCoords
    /\ Len(ret.tokens) > 0

\* the points of a procedure as key points
PointsOf(points) == [k \in 1..Len(points) |-> <<points[k].lat, points[k].lon>>]

\* C22: the points held aside are those of the arrival procedure named by the last token;
\* when the loop has ended they are appended, with 'star' markers, after all key points of
\* the loop, and then the valid arrival coordinate once, unless the key points already end
\* there: with a valid arrival coordinate the last key point is the arrival coordinate.
C22_StarThenArrival ==
    [][ (ret # NULL /\ ret.stage = "enroute" /\ ret'.stage = "done") =>
          /\ Len(ret.starPoints) > 0 =>
                ret.starPoints = ProcedurePoints(starLookup, call.arrAirportId,
                                     parts(call.routeString)[Len(parts(call.routeString))])
          /\ SubSeq(ret'.keyPoints, 1, Len(ret.keyPoints) + Len(ret.starPoints))
                = ret.keyPoints \o PointsOf(ret.starPoints)
          /\ Len(ret'.markers) = Len(ret.markers) + Len(ret.starPoints)
          /\ SubSeq(ret'.markers, 1, Len(ret.markers)) = ret.markers
          /\ \A k \in 1..Len(ret.starPoints) :
                /\ ret'.markers[Len(ret.markers) + k].type = "star"
                /\ ret'.markers[Len(ret.markers) + k].name = ret.starPoints[k].name
                /\ <<ret'.markers[Len(ret.markers) + k].lat, ret'.markers[Len(ret.markers) + k].lon>>
                     = ret'.keyPoints[Len(ret.keyPoints) + k]
          /\ IF isValidPoint(call.endCoords)
                THEN /\ ret'.keyPoints[Len(ret'.keyPoints)] = call.endCoords
                     /\ Len(ret'.keyPoints) - Len(ret.keyPoints) - Len(ret.starPoints)
                          = (IF Len(ret.keyPoints \o PointsOf(ret.starPoints)) > 0
                                /\ (ret.keyPoints \o PointsOf(ret.starPoints))
                                      [Len(ret.keyPoints) + Len(ret.starPoints)] = call.endCoords
                               THEN 0 ELSE 1)
                ELSE Len(ret'.keyPoints) = Len(ret.keyPoints) + Len(ret.starPoints) ]_vars

\* a finished resolution with an enroute waypoint, an arrival procedure after it and the
\* arrival coordinate last
C22_Witness ==
    /\ ret # NULL /\ call.fn = "parseSmartRoute" /\ ret.stage = "done"
    /\ Len(ret.starPoints) > 0 /\ isValidPoint(call.endCoords)
    /\ \E m \in 1..Len(ret.markers) : ret.markers[m].type = "enroute"
    /\ ret.markers[Len(ret.markers)].type = "star"
    /\ ret.keyPoints[Len(ret.keyPoints)] = call.endCoords
    /\ ret.keyPoints[Len(ret.keyPoints) - 1]
          = <<ret.starPoints[Len(ret.starPoints)].lat, ret.starPoints[Len(ret.starPoints)].lon>>

\* the step is the loop iteration for an airway token with both anchors
AirwayStep ==
    /\ ret # NULL /\ call.fn = "parseSmartRoute" /\ ret.stage = "enroute"
    /\ ret.i <= Len(ret.tokens)
    /\ ret.tokens[ret.i] \notin DOMAIN waypointLookup
    /\ ret.tokens[ret.i] \in DOMAIN airwayLookup
    /\ Len(ret.keyPoints) > 0
    /\ isValidPoint(nextLocOf(ret.tokens, ret.i, ret.starPoints, call.endCoords))

\* the anchors of the airway step: the last key point and the location after the airway
PrevAnchor == ret.keyPoints[Len(ret.keyPoints)]
NextAnchor == nextLocOf(ret.tokens, ret.i, ret.starPoints, call.endCoords)

\* the entry and the exit index of the airway step
EntryIndex == NearestIndex(airwayLookup[ret.tokens[ret.i]], PrevAnchor)
ExitIndex == NearestIndex(airwayLookup[ret.tokens[ret.i]], NextAnchor)

\* the airway's points strictly between the entry and the exit index, from the entry side
Between ==
    LET pts == PointsOf(airwayLookup[ret.tokens[ret.i]])
    IN  IF EntryIndex < ExitIndex
          THEN SubSeq(pts, EntryIndex + 1, ExitIndex - 1)
          ELSE [m \in 1..(EntryIndex - ExitIndex - 1) |-> pts[EntryIndex - m]]

\* the midpoint of a leg, where its label is placed
MidOf(p, q) == <<(p[1] + q[1]) \div 2, (p[2] + q[2]) \div 2>>

\* C23: for an airway token whose entry index s and exit index e differ, the key points
\* appended are the airway's points strictly between s and e in the order from s towards e,
\* and |e - s| labels with the airway's identifier are added, one for every consecutive
\* pair of the chain previous key point, intermediates, exit anchor.
C23_AirwayIntermediatesAndLabels ==
    [][ (AirwayStep /\ EntryIndex # ExitIndex) =>
          LET chain == <<PrevAnchor>> \o Between \o <<NextAnchor>>
          IN  /\ ret'.keyPoints = ret.keyPoints \o Between
              /\ Len(ret'.labels) = Len(ret.labels) + Abs(ExitIndex - EntryIndex)
              /\ Len(chain) = Abs(ExitIndex - EntryIndex) + 1
              /\ SubSeq(ret'.labels, 1, Len(ret.labels)) = ret.labels
              /\ \A m \in 1..Abs(ExitIndex - EntryIndex) :
                    /\ ret'.labels[Len(ret.labels) + m].text = ret.tokens[ret.i]
                    /\ <<ret'.labels[Len(ret.labels) + m].lat, ret'.labels[Len(ret.labels) + m].lon>>
                         = MidOf(chain[m], chain[m + 1]) ]_vars

\* the airway H6 has been walked down its point list, from WB to WA: two intermediate key
\* points and three labels
C23_Witness ==
    /\ ret # NULL /\ call.fn = "parseSmartRoute" /\ ret.stage = "enroute" /\ ret.i = 3
    /\ ret.tokens = <<WB, H6, WA>>
    /\ Len(ret.labels) = 3
    /\ Len(ret.keyPoints) >= 3
    /\ ret.keyPoints[Len(ret.keyPoints) - 2] = waypointLookup[WB]
    /\ ret.keyPoints[Len(ret.keyPoints)] = <<airwayLookup[H6][2].lat, airwayLookup[H6][2].lon>>

\* C24: for an airway token whose entry index and exit index are the same, exactly one leg
\* label is added, between the two anchors, and the airway adds no key point.
C24_SameIndexOneLabel ==
    [][ (AirwayStep /\ EntryIndex = ExitIndex) =>
          /\ ret'.keyPoints = ret.keyPoints
          /\ ret'.markers = ret.markers
          /\ Len(ret'.labels) = Len(ret.labels) + 1
          /\ SubSeq(ret'.labels, 1, Len(ret.labels)) = ret.labels
          /\ ret'.labels[Len(ret'.labels)].text = ret.tokens[ret.i]
          /\ <<ret'.labels[Len(ret'.labels)].lat, ret'.labels[Len(ret'.labels)].lon>>
               = MidOf(PrevAnchor, NextAnchor) ]_vars

\* H6 between the departure airport and WA, both nearest to the airway's first point: one
\* label, and the only key point is still the departure
C24_Witness ==
    /\ ret # NULL /\ call.fn = "parseSmartRoute" /\ ret.stage = "enroute" /\ ret.i = 2
    /\ ret.tokens = <<H6, WA>>
    /\ ret.keyPoints = <<call.startCoords>>
    /\ Len(ret.labels) = 1
    /\ ret.labels[1].text = H6
    /\ <<ret.labels[1].lat, ret.labels[1].lon>> = MidOf(call.startCoords, waypointLookup[WA])

\* the step is the loop iteration for an airway token
AirwayTokenStep ==
    /\ ret # NULL /\ call.fn = "parseSmartRoute" /\ ret.stage = "enroute"
    /\ ret.i <= Len(ret.tokens)
    /\ ret.tokens[ret.i] \notin DOMAIN waypointLookup
    /\ ret.tokens[ret.i] \in DOMAIN airwayLookup

\* C29: an airway token is resolved only against the token right after it: when that token
\* is not a known waypoint, or when there is no previous key point, the airway adds no key
\* point, no marker and no label, even if a known waypoint follows later.
C29_AirwayNeedsAdjacentAnchors ==
    [][ (/\ AirwayTokenStep
         /\ \/ Len(ret.keyPoints) = 0
            \/ (ret.i < Len(ret.tokens) /\ ret.tokens[ret.i + 1] \notin DOMAIN waypointLookup))
        => /\ ret'.keyPoints = ret.keyPoints
           /\ ret'.markers = ret.markers
           /\ ret'.labels = ret.labels
           /\ ret'.i = ret.i + 1 ]_vars

\* H6 followed by an unknown token and then by the waypoint WB has been passed: the
\* departure is still the only key point and there is no label
C29_Witness ==
    /\ ret # NULL /\ call.fn = "parseSmartRoute" /\ ret.stage = "enroute" /\ ret.i = 2
    /\ ret.tokens = <<H6, <<"Z", "Z">>, WB>>
    /\ ret.keyPoints = <<call.startCoords>>
    /\ ret.markers = <<>>
    /\ ret.labels = <<>>

\* the resolution has ended
ParseDone == ret # NULL /\ call.fn = "parseSmartRoute" /\ ret.stage = "done"

\* the resolution has ended after the densify step: the route string was not empty
Densified == ParseDone /\ Len(call.routeString) > 0

\* the consecutive pairs of the final key points that do not coincide, by their first index
Legs == { j \in 1..(Len(ret.keyPoints) - 1) : ret.keyPoints[j] # ret.keyPoints[j + 1] }

\* the position of the leg j among the legs
LegRank(j) == Cardinality({ x \in Legs : x <= j })

---------------------------------------------------------------------------
(* Claims about the pure functions                                         *)

\* C7: calculateRates returns turnRate = 0, climbRate = 0 and accelRate = 0 for every pair of
\* snapshots whenever timeDelta <= 0.
C7_ZeroRatesWhenNoTimePassed ==
    (ret # NULL /\ RLe(call.timeDelta, RZero)) => ret[1] = ZeroRates

\* a call with a negative time and snapshots that differ in heading, altitude and speed
C7_Witness ==
    /\ ret # NULL
    /\ RLt(call.timeDelta, RZero)
    /\ call.oldData.heading # call.newData.heading
    /\ call.oldData.altitude # call.newData.altitude
    /\ call.oldData.groundspeed # call.newData.groundspeed
    /\ ret[1] = ZeroRates

\* C8: for headings a, b in [0, 360), getShortestTurn(a, b) lies in (-180, 180], with
\* getShortestTurn(350, 10) = 20 and getShortestTurn(10, 350) = -20.
C8_TurnInHalfOpenRange ==
    ret # NULL =>
        /\ RLt(RInt(-HalfCircle), ret[1]) /\ RLe(ret[1], RInt(HalfCircle))
        /\ (call.start = 350 /\ call.end = 10) => ret[1] = RInt(20)
        /\ (call.start = 10 /\ call.end = 350) => ret[1] = RInt(-20)

\* C9: getPilotStatus returns 'outside' with a null event time for every pilot whose ground
\* speed is missing or below 50 kt, wherever it is; a speed of exactly 50 kt is not gated: a
\* pilot at 50 kt that is inside the sector now and in 30 minutes is reported 'inside'.
C9_SpeedGate ==
    ret # NULL =>
        /\ (NoSpeed(call.pilot) \/ call.pilot.groundspeed < 50)
              => (ret[1].state = "outside" /\ ret[1].minutesUntilEvent = NULL)
        /\ ( /\ ~NoSpeed(call.pilot) /\ call.pilot.groundspeed = 50
              /\ call.firPolygon # NULL
              /\ checkInsideAny([lat |-> call.pilot.latitude, lon |-> call.pilot.longitude],
                                call.firPolygon)
              /\ checkInsideAny(futurePosition(call.pilot, call.routeLine, call.distAlongRoute,
                                               call.offset), call.firPolygon) )
              => ret[1].state = "inside"

\* a pilot at 40 kt inside the sector, reported outside
C9_Witness ==
    /\ ret # NULL
    /\ call.firPolygon # NULL
    /\ ~NoSpeed(call.pilot) /\ call.pilot.groundspeed = 40
    /\ checkInsideAny([lat |-> call.pilot.latitude, lon |-> call.pilot.longitude], call.firPolygon)
    /\ ret[1].state = "outside"

\* C10: at or above the speed gate the state is a function of (inside now, inside in 30
\* minutes): (true, false) 'leaving', (false, true) 'entering', (true, true) 'inside',
\* (false, false) 'outside'; 'inside' and 'outside' carry a null event time.
C10_StateTable ==
    (ret # NULL /\ call.firPolygon # NULL /\ ~NoSpeed(call.pilot) /\ call.pilot.groundspeed >= 50) =>
        LET insideNow == checkInsideAny([lat |-> call.pilot.latitude, lon |-> call.pilot.longitude],
                                        call.firPolygon)
            insideFuture == checkInsideAny(futurePosition(call.pilot, call.routeLine,
                                                          call.distAlongRoute, call.offset),
                                           call.firPolygon)
        IN  /\ ret[1].state = (IF insideNow /\ ~insideFuture THEN "leaving"
                               ELSE IF ~insideNow /\ insideFuture THEN "entering"
                               ELSE IF insideNow THEN "inside" ELSE "outside")
            /\ ret[1].state \in {"inside", "outside"} => ret[1].minutesUntilEvent = NULL

\* a pilot that is inside now and outside in 30 minutes, with an event time
C10_Witness ==
    /\ ret # NULL /\ call.firPolygon # NULL
    /\ ret[1].state = "leaving"
    /\ ret[1].minutesUntilEvent # NULL

\* C11: the event time is null whenever the speed is <= 0 or the chord does not meet the
\* sector boundary; otherwise it is a non-negative integer, the distance to the nearest
\* intersection divided by the speed per minute, rounded to the nearest minute.
C11_MinutesToBoundary ==
    ret # NULL =>
        LET a == call.pathLine[1]
            b == call.pathLine[2]
            hits == lineIntersect(call.pathLine, call.polygon)
            at(t) == [lat |-> a.lat + RFloor(RMul(t, RInt(b.lat - a.lat))),
                      lon |-> a.lon + RFloor(RMul(t, RInt(b.lon - a.lon)))]
            dists == { distance(call.currentPt, at(t)) : t \in hits }
        IN  IF call.speedKts <= 0 \/ hits = {}
              THEN ret[1] = NULL
              ELSE /\ ret[1] # NULL
                   /\ ret[1][1] \in Nat
                   /\ \E d \in dists :
                         /\ \A e \in dists : d <= e
                         /\ 2 * ret[1][1] * call.speedKts <= 2 * d + call.speedKts
                         /\ 2 * d < (2 * ret[1][1] + 1) * call.speedKts

\* a chord that crosses the boundary at a positive speed, the quotient rounded up
C11_Witness ==
    /\ ret # NULL /\ ret[1] # NULL
    /\ call.speedKts > 0
    /\ ret[1][1] > 0
    /\ \E t \in lineIntersect(call.pathLine, call.polygon) :
          LET d == distance(call.currentPt,
                            [lat |-> call.pathLine[1].lat
                                       + RFloor(RMul(t, RInt(call.pathLine[2].lat - call.pathLine[1].lat))),
                             lon |-> call.pathLine[1].lon
                                       + RFloor(RMul(t, RInt(call.pathLine[2].lon - call.pathLine[1].lon)))])
          IN  ret[1][1] * call.speedKts > d

\* C12: over several active sectors the composite status is 'transition' when one sector
\* reports 'leaving' and another 'entering' (activeSector the leaving sector, secondarySector
\* the entering one, the event time that of the leaving sector); otherwise 'inside' if a sector
\* reports inside, else 'leaving', else 'entering', else 'outside'; secondarySector is set only
\* for 'transition'.
C12_CompositePriority ==
    ret # NULL =>
        LET fs == call.features
            st(i) == getPilotStatus(call.pilot, fs[i], NULL, NULL, NULL)
            with(state) == { i \in 1 .. Len(fs) : st(i).state = state }
            r == ret[1]
        IN  /\ r.state =
                 (IF with("leaving") # {} /\ with("entering") # {} THEN "transition"
                  ELSE IF with("inside") # {} THEN "inside"
                  ELSE IF with("leaving") # {} THEN "leaving"
                  ELSE IF with("entering") # {} THEN "entering"
                  ELSE "outside")
            /\ r.state = "transition" =>
                 /\ \E i \in with("leaving") :
                       /\ r.activeSector = Some(fs[i].id)
                       /\ r.minutesUntilEvent = st(i).minutesUntilEvent
                 /\ \E j \in with("entering") :
                       /\ r.secondarySector = Some(fs[j].id)
                       /\ r.activeSector # r.secondarySector
            /\ r.state \in {"inside", "leaving", "entering"} =>
                 \E i \in with(r.state) :
                     /\ r.activeSector = Some(fs[i].id)
                     /\ r.minutesUntilEvent = st(i).minutesUntilEvent
            /\ r.state = "outside" => r.activeSector = NULL
            /\ r.state # "transition" => r.secondarySector = NULL

\* a pilot inside one sector, leaving a second one and entering a third: a transition
C12_Witness ==
    /\ ret # NULL
    /\ ret[1].state = "transition"
    /\ ret[1].minutesUntilEvent # NULL
    /\ \E i \in 1 .. Len(call.features) :
          getPilotStatus(call.pilot, call.features[i], NULL, NULL, NULL).state = "inside"

\* the start distance plus the distance travelled is at least the route's length
BeyondRouteEnd ==
    RLe(RInt(length(call.routeLine) - call.startDistanceKm),
        RDiv(RMul(call.speedKts, call.timeElapsedSec), RInt(60)))

\* C26: when the start distance plus the distance travelled is at least the route's length,
\* predictPositionOnRoute returns the last point of the route, whatever the speed, the
\* elapsed time and the lateral offset.
C26_ClampsAtRouteEnd ==
    (ret # NULL /\ call.fn = "predictPositionOnRoute" /\ BeyondRouteEnd)
        => ret = Some(call.routeLine[Len(call.routeLine)])

\* far beyond the end of the bent route with a lateral offset of 20: the result is the
\* route's last point
C26_Witness ==
    /\ ret # NULL /\ call.fn = "predictPositionOnRoute"
    /\ Len(call.routeLine) = 3
    /\ call.offsetKm = 20
    /\ call.startDistanceKm = 50
    /\ call.speedKts = RInt(480) /\ call.timeElapsedSec = Rat(15000, 1000)
    /\ ret = Some(call.routeLine[3])

---------------------------------------------------------------------------
(* Claims about the controller                                             *)

C2_EveryPassCompletes ==
    /\ pc # "crashed"
    /\ passEnded =>
          \A i \in 1 .. Len(dataRef.pilots) :
              /\ dataRef.pilots[i].cid \in DOMAIN pilotRegistry
              /\ pilotRegistry[dataRef.pilots[i].cid].lastData = dataRef.pilots[i]

\* C3: after every reconciliation pass the ids in the registry are the ids in the batch.
C3_RegistryIdsAreBatchIds ==
    passEnded =>
        DOMAIN pilotRegistry = { dataRef.pilots[i].cid : i \in 1 .. Len(dataRef.pilots) }

\* C4: no animate frame runs inside a reconciliation pass, and no frame reads a registry whose
\* entries were written by different passes.
C4_FramesNeverSeeAPartialPass ==
    tickView # NULL => (~tickView.midPass /\ ~tickView.torn)

\* a frame has run after a pass that updated one of two entities: it switched the smoothing off
C4_Witness ==
    /\ tickView # NULL
    /\ Cardinality(DOMAIN pilotRegistry) = 2
    /\ \E c \in DOMAIN pilotRegistry :
          /\ Len(pilotRegistry[c].history) >= 2
          /\ ~pilotRegistry[c].smoothing.active

\* C5: the rates, the last-update timestamp and the history of an entity change only in a pass
\* that reconciles a newly arrived batch.
C5_OnlyABatchChangesKinematics ==
    [][ \A c \in (DOMAIN pilotRegistry) \cap (DOMAIN pilotRegistry') :
           ( \/ pilotRegistry[c].rates # pilotRegistry'[c].rates
             \/ pilotRegistry[c].lastUpdated # pilotRegistry'[c].lastUpdated
             \/ pilotRegistry[c].history # pilotRegistry'[c].history )
           => passIsNew ]_vars

\* C6: the rates of an entity are all zero as long as no second snapshot of it has been
\* reconciled.
C6_ZeroRatesBeforeSecondSnapshot ==
    \A c \in DOMAIN pilotRegistry :
        (\A i \in 2 .. Len(appended[c]) : ~appended[c][i].fresh)
        => /\ pilotRegistry[c].rates.turnRate = RZero
           /\ pilotRegistry[c].rates.climbRate = RZero
           /\ pilotRegistry[c].rates.accelRate = RZero

\* an entity whose only snapshot has been reconciled twice, and one just created
C6_Witness ==
    /\ \E c \in DOMAIN pilotRegistry :
          /\ Len(appended[c]) = 2 /\ ~appended[c][2].fresh
          /\ pilotRegistry[c].rates = ZeroRates
    /\ \E c \in DOMAIN pilotRegistry : Len(appended[c]) = 1

============================================================================
